---- MODULE Spec2Model ----
(***************************************************************************)
(* Model of the Kea lease monitor (kea_lease_monitor.py): the lease        *)
(* processor's reservation/DNS transaction, the per-cabinet inventory      *)
(* reconciler and its conflict detection.                                  *)
(*                                                                         *)
(* Python str values that the code parses, formats or compares (hostnames, *)
(* ip addresses, hardware addresses, rack-unit display strings) are        *)
(* sequences of one-character strings, so that the regular expressions,    *)
(* int(), lower(), upper() and the string order are computed, not assumed. *)
(***************************************************************************)
EXTENDS Integers, Sequences, FiniteSets, TLC

VARIABLES
    db_enabled,   \* LeaseProcessor.db_enabled
    enable_dns,   \* LeaseProcessor.enable_dns
    dns_available,\* the solidserver_connection and vault_credentials modules were imported
    lease_log,    \* the leases of the lease file, in file order
    files,        \* output_dir: cabinet key -> inventory file (or NoFile)
    hosts,        \* committed rows of the reservation store (table hosts)
    dns,          \* A records held by the DNS collaborator
    passes,       \* operations run so far
    last,         \* what the last operation did (observation of its calls and result)
    probe,        \* a hostname handed to the rack-unit functions, and their results
    lease_file,   \* the Kea lease file on disk: its state, modification time and rows
    conn,         \* the notification connection: what arrived and what was polled
    source,       \* lease_source: the FileLeaseSource or DatabaseLeaseSource object
    driver,       \* main(): its arguments and its position
    polled,       \* what the last get_new_leases call saw and returned
    watcher       \* the InventoryWatcher of bmc_dns_watcher.py and the files handed to it

\* The state of the lease sources and of main().
watch == <<lease_file, conn, source, driver, polled>>

vars == <<db_enabled, enable_dns, dns_available, lease_log, files, hosts, dns, passes, last,
          probe, watch, watcher>>

----------------------------------------------------------------------------
(* Text helpers *)

\* The characters that occur, in ASCII (Python str comparison) order.
Alphabet ==
    <<" ", "-", ".", "0", "1", "2", "3", "4", "5", "6", "7", "8", "9", ":",
      "A", "B", "C", "D", "E", "F", "G", "H", "I", "J", "K", "L", "M", "N",
      "O", "P", "Q", "R", "S", "T", "U", "V", "W", "X", "Y", "Z",
      "a", "b", "c", "d", "e", "f", "g", "h", "i", "j", "k", "l", "m", "n",
      "o", "p", "q", "r", "s", "t", "u", "v", "w", "x", "y", "z">>

Ord(c) ==
    CHOOSE i \in 1..Len(Alphabet) : Alphabet[i] = c

UpperCase ==
    <<"A", "B", "C", "D", "E", "F", "G", "H", "I", "J", "K", "L", "M", "N",
      "O", "P", "Q", "R", "S", "T", "U", "V", "W", "X", "Y", "Z">>

LowerCase ==
    <<"a", "b", "c", "d", "e", "f", "g", "h", "i", "j", "k", "l", "m", "n",
      "o", "p", "q", "r", "s", "t", "u", "v", "w", "x", "y", "z">>

LowerChar(c) ==
    IF \E i \in 1..Len(UpperCase) : UpperCase[i] = c
    THEN LowerCase[CHOOSE i \in 1..Len(UpperCase) : UpperCase[i] = c]
    ELSE c

UpperChar(c) ==
    IF \E i \in 1..Len(LowerCase) : LowerCase[i] = c
    THEN UpperCase[CHOOSE i \in 1..Len(LowerCase) : LowerCase[i] = c]
    ELSE c

\* str.lower()
Lower(s) ==
    [i \in 1..Len(s) |-> LowerChar(s[i])]

\* str.upper()
Upper(s) ==
    [i \in 1..Len(s) |-> UpperChar(s[i])]

DigitChars ==
    <<"0", "1", "2", "3", "4", "5", "6", "7", "8", "9">>

IsDigit(c) ==
    \E i \in 1..Len(DigitChars) : DigitChars[i] = c

DigitVal(c) ==
    (CHOOSE i \in 1..Len(DigitChars) : DigitChars[i] = c) - 1

\* int(s) of a run of decimal digits
RECURSIVE ParseInt(_)
ParseInt(s) ==
    IF s = <<>> THEN 0
    ELSE ParseInt(SubSeq(s, 1, Len(s) - 1)) * 10 + DigitVal(s[Len(s)])

\* str(n) / f"{n}" of a natural number
RECURSIVE IntToStr(_)
IntToStr(n) ==
    IF n < 10 THEN <<DigitChars[n + 1]>>
    ELSE IntToStr(n \div 10) \o <<DigitChars[(n % 10) + 1]>>

\* The index just after the longest run of digits that starts at index i (\d+, greedy).
RECURSIVE DigitRunEnd(_, _)
DigitRunEnd(s, i) ==
    IF i <= Len(s) /\ IsDigit(s[i]) THEN DigitRunEnd(s, i + 1) ELSE i

StartsWithAt(s, i, p) ==
    /\ i + Len(p) - 1 <= Len(s)
    /\ SubSeq(s, i, i + Len(p) - 1) = p

\* p in s
Contains(s, p) ==
    \E i \in 1..Len(s) : StartsWithAt(s, i, p)

\* s.endswith(p)
EndsWith(s, p) ==
    /\ Len(s) >= Len(p)
    /\ SubSeq(s, Len(s) - Len(p) + 1, Len(s)) = p

\* a < b for Python str (lexicographic by character code)
RECURSIVE StrLess(_, _)
StrLess(a, b) ==
    IF b = <<>> THEN FALSE
    ELSE IF a = <<>> THEN TRUE
    ELSE IF a[1] = b[1] THEN StrLess(Tail(a), Tail(b))
    ELSE Ord(a[1]) < Ord(b[1])

\* Python None where the code can hold it in a str field (DHCPLease.mac_address).
None ==
    <<"None">>

\* Python truthiness of an Optional[str]
Truthy(s) ==
    s # <<>> /\ s # None

----------------------------------------------------------------------------
(* Hostname parsing *)

\* re.search(r'ru(\d+)(?:-(\d+))?', hostname_lower): the leftmost match and its groups
\* (g2 = <<>> when group 2 did not take part).
RuMatch(s) ==
    LET starts == {i \in 1..Len(s) :
                      /\ StartsWithAt(s, i, <<"r", "u">>)
                      /\ i + 2 <= Len(s)
                      /\ IsDigit(s[i + 2])}
    IN  IF starts = {} THEN [found |-> FALSE, g1 |-> <<>>, g2 |-> <<>>]
        ELSE LET i    == CHOOSE x \in starts : \A y \in starts : x <= y
                 e1   == DigitRunEnd(s, i + 2)
                 has2 == e1 + 1 <= Len(s) /\ s[e1] = "-" /\ IsDigit(s[e1 + 1])
                 e2   == IF has2 THEN DigitRunEnd(s, e1 + 1) ELSE e1
             IN  [found |-> TRUE,
                  g1 |-> SubSeq(s, i + 2, e1 - 1),
                  g2 |-> IF has2 THEN SubSeq(s, e1 + 1, e2 - 1) ELSE <<>>]

Max(a, b) ==
    IF a >= b THEN a ELSE b

Min(a, b) ==
    IF a <= b THEN a ELSE b

\* LeaseProcessor._extract_rack_unit
ExtractRackUnit(hostname) ==
    IF ~Truthy(hostname) THEN 0
    ELSE LET m == RuMatch(Lower(hostname))
         IN  IF m.found
             THEN LET ru_start == ParseInt(m.g1)
                      ru_end   == IF m.g2 # <<>> THEN ParseInt(m.g2) ELSE ru_start
                  IN  Max(ru_start, ru_end)
             ELSE 0

\* LeaseProcessor._format_rack_unit; `if ru_end:` is false for None and for 0.
FormatRackUnit(hostname) ==
    IF ~Truthy(hostname) THEN <<>>
    ELSE LET m == RuMatch(Lower(hostname))
         IN  IF m.found
             THEN LET ru_start == ParseInt(m.g1)
                      has_end  == m.g2 # <<>> /\ ParseInt(m.g2) # 0
                      ru_end   == ParseInt(m.g2)
                  IN  IF has_end
                      THEN <<"R", "U", " ">> \o IntToStr(Max(ru_start, ru_end))
                               \o <<"-">> \o IntToStr(Min(ru_start, ru_end))
                      ELSE <<"R", "U", " ">> \o IntToStr(ru_start)
             ELSE <<>>

\* LeaseProcessor._get_rack_unit_range
GetRackUnitRange(hostname) ==
    IF ~Truthy(hostname) THEN {}
    ELSE LET m == RuMatch(Lower(hostname))
         IN  IF m.found
             THEN LET ru_start == ParseInt(m.g1)
                      ru_end   == IF m.g2 # <<>> THEN ParseInt(m.g2) ELSE ru_start
                  IN  Min(ru_start, ru_end)..Max(ru_start, ru_end)
             ELSE {}

\* The result of _extract_site_and_cabinet when the hostname does not match.
NoKey ==
    <<>>

\* A grouping that files a hostname outside the convention under a default cabinet.
ExtractSiteAndCabinetOrDefault(hostname) ==
    IF hostname = <<>> THEN <<>>
    ELSE <<<<"u", "s", "3">>, <<"c", "a", "b", "1">>>>

\* LeaseProcessor._extract_site_and_cabinet: re.match(r'^(us[1-4]|dv)-cab(\d+)-', lower)
ExtractSiteAndCabinet(hostname) ==
    IF ~Truthy(hostname) THEN NoKey
    ELSE LET s == Lower(hostname)
             siteLen == IF StartsWithAt(s, 1, <<"u", "s">>) /\ Len(s) >= 3
                           /\ s[3] \in {"1", "2", "3", "4"}
                        THEN 3
                        ELSE IF StartsWithAt(s, 1, <<"d", "v">>) THEN 2 ELSE 0
         IN  IF siteLen = 0 \/ ~StartsWithAt(s, siteLen + 1, <<"-", "c", "a", "b">>)
             THEN NoKey
             ELSE LET d == siteLen + 5
                      e == DigitRunEnd(s, d)
                  IN  IF e > d /\ e <= Len(s) /\ s[e] = "-"
                      THEN <<SubSeq(s, 1, siteLen), <<"c", "a", "b">> \o SubSeq(s, d, e - 1)>>
                      ELSE NoKey

\* LeaseProcessor._detect_manufacturer
DetectManufacturer(hostname) ==
    IF ~Truthy(hostname) THEN "Unknown"
    ELSE LET h == Lower(hostname)
         IN  IF EndsWith(h, <<"-", "i", "d", "r", "a", "c">>) \/ Contains(h, <<"i", "d", "r", "a", "c">>)
             THEN "Dell"
             ELSE IF EndsWith(h, <<"-", "i", "l", "o">>) \/ Contains(h, <<"i", "l", "o">>)
             THEN "HP"
             ELSE IF EndsWith(h, <<"-", "b", "m", "c">>) \/ EndsWith(h, <<"b", "m", "c">>)
             THEN "Supermicro"
             ELSE "Unknown"

----------------------------------------------------------------------------
(* Addresses *)

\* ip string -> bigint: (%s::inet - '0.0.0.0'::inet)::bigint, and the same sum in
\* _query_lease_details.
RECURSIVE IpFold(_, _, _)
IpFold(s, acc, cur) ==
    IF s = <<>> THEN acc * 256 + cur
    ELSE IF s[1] = "." THEN IpFold(Tail(s), acc * 256 + cur, 0)
    ELSE IpFold(Tail(s), acc, cur * 10 + DigitVal(s[1]))

IpToInt(ip) ==
    IpFold(ip, 0, 0)

\* lease.mac_address.replace(':', '').upper()
MacHex(mac) ==
    Upper(SelectSeq(mac, LAMBDA c : c # ":"))

HexChars ==
    {"0", "1", "2", "3", "4", "5", "6", "7", "8", "9", "A", "B", "C", "D", "E", "F"}

\* decode(%s, 'hex') accepts an even number of hex digits (the empty string too).
ValidHex(s) ==
    /\ Len(s) % 2 = 0
    /\ \A i \in 1..Len(s) : s[i] \in HexChars

----------------------------------------------------------------------------
(* Leases *)

IP1 == <<"1", "0", ".", "0", ".", "0", ".", "1">>
IP2 == <<"1", "0", ".", "0", ".", "0", ".", "2">>
IP3 == <<"1", "0", ".", "0", ".", "0", ".", "3">>
IP4 == <<"1", "0", ".", "0", ".", "0", ".", "4">>
IP5 == <<"1", "0", ".", "0", ".", "0", ".", "5">>
IP6 == <<"1", "0", ".", "0", ".", "0", ".", "6">>

MACA == <<"a", "a", ":", "0", "1">>
MACB == <<"a", "a", ":", "0", "2">>
MACC == <<"a", "a", ":", "0", "3">>

H_RU3  == <<"u", "s", "3", "-", "c", "a", "b", "1", "-", "r", "u", "3", "-", "i", "d", "r", "a", "c">>
H_RU79 == <<"u", "s", "3", "-", "c", "a", "b", "1", "-", "r", "u", "7", "-", "9", "-", "i", "l", "o">>
H_RU9  == <<"u", "s", "3", "-", "c", "a", "b", "1", "-", "r", "u", "9", "-", "b", "m", "c">>
H_BAD  == <<"r", "a", "c", "k", "1", "-", "n", "o", "h", "y", "p", "h", "e", "n">>
H_DV   == <<"D", "V", "-", "C", "A", "B", "2", "-", "R", "U", "1", "-", "x">>

\* DHCPLease (ip_address, mac_address, hostname); hostname None and '' are both <<>>.
Lease(ip, mac, hostname) ==
    [ip_address |-> ip, mac_address |-> mac, hostname |-> hostname]

L1 == Lease(IP1, MACA, H_RU3)     \* a device in us3-cab1, rack unit 3
L2 == Lease(IP2, MACA, H_RU79)    \* same mac as L1 on another ip; units 7..9
L3 == Lease(IP3, <<>>, H_RU9)     \* no hardware address; unit 9, also claimed by L2
L4 == Lease(IP1, MACB, H_RU79)    \* the ip of L1 with another identity; hostname of L2
L5 == Lease(IP4, MACC, H_BAD)     \* hostname outside the site-cabinet convention
L6 == Lease(IP5, MACC, <<>>)      \* no hostname
L7 == Lease(IP6, None, H_DV)      \* another cabinet, upper case, mac None (notification source)

Leases ==
    {L1, L2, L3, L4, L5, L6, L7}

\* The lease file the leases are drawn from, in file order.
AllLeases ==
    <<L1, L2, L3, L4, L5, L6, L7>>

Hostnames ==
    {l.hostname : l \in Leases}

Ips ==
    {l.ip_address : l \in Leases}

\* The functions of a hostname, tabulated once over the hostnames that occur.
RackUnitOf ==
    [h \in Hostnames |-> ExtractRackUnit(h)]

RackUnitDisplayOf ==
    [h \in Hostnames |-> FormatRackUnit(h)]

RackUnitRangeOf ==
    [h \in Hostnames |-> GetRackUnitRange(h)]

CabinetKeyOf ==
    [h \in Hostnames |-> ExtractSiteAndCabinet(h)]

ManufacturerOf ==
    [h \in Hostnames |-> DetectManufacturer(h)]

IpIntOf ==
    [ip \in Ips |-> IpToInt(ip)]

----------------------------------------------------------------------------
(* Reservation / DNS transaction manager *)

\* What the collaborators do to one create_static_reservation call: nothing goes
\* wrong, psycopg2.connect raises, cur.execute raises, create_dns_record reports a
\* failure, conn.commit raises.
Outcomes ==
    {"ok", "connect_fail", "upsert_fail", "dns_fail", "commit_fail"}

\* INSERT ... ON CONFLICT (dhcp_identifier, dhcp_identifier_type, dhcp4_subnet_id)
\* DO UPDATE SET ipv4_address, hostname: the rows the open transaction sees.
Upsert(rows, mac_hex, ip, hostname) ==
    {r \in rows : r.dhcp_identifier # mac_hex}
        \cup {[dhcp_identifier |-> mac_hex, ipv4_address |-> IpIntOf[ip], hostname |-> hostname]}

\* A rollback that leaves the rows of the open transaction visible.
RollbackLeaks(committed, pending) ==
    pending

\* conn.rollback() / conn.close() without commit: the committed rows stay as they were.
Rollback(committed, pending) ==
    committed

\* conn.commit(): the rows of the transaction become the committed rows.
Commit(committed, pending) ==
    pending

\* LeaseProcessor.create_dns_record: [ok, dns]. With DNS disabled or the modules missing
\* it reports success and creates nothing (dns_zone is set whenever the constructor
\* leaves enable_dns and db_enabled on); otherwise dns_rr.create() adds the A record
\* or the step fails and adds nothing.
CreateDnsRecord(records, hostname, ip_address, works) ==
    IF ~enable_dns THEN [ok |-> TRUE, dns |-> records]
    ELSE IF ~dns_available THEN [ok |-> TRUE, dns |-> records]
    ELSE IF works
    THEN [ok |-> TRUE, dns |-> records \cup {[hostname |-> hostname, ip |-> ip_address]}]
    ELSE [ok |-> FALSE, dns |-> records]

\* The result of a create_static_reservation call that returns False before it has
\* touched either system.
Refused(rows, records, trace) ==
    [ret |-> FALSE, hosts |-> rows, dns |-> records, trace |-> trace]

\* A transaction manager that commits the upsert before it creates the DNS record.
CreateStaticReservationCommitFirst(lease, rows, records, outcome) ==
    IF ~db_enabled THEN Refused(rows, records, <<>>)
    ELSE IF ~Truthy(lease.hostname) THEN Refused(rows, records, <<>>)
    ELSE IF lease.mac_address = None THEN Refused(rows, records, <<>>)
    ELSE IF outcome = "connect_fail" THEN Refused(rows, records, <<"connect">>)
    ELSE LET mac_hex == MacHex(lease.mac_address)
         IN  IF outcome = "upsert_fail" \/ ~ValidHex(mac_hex)
             THEN [ret |-> FALSE, hosts |-> Rollback(rows, rows), dns |-> records,
                   trace |-> <<"connect", "execute", "close">>]
             ELSE LET pending == Upsert(rows, mac_hex, lease.ip_address, lease.hostname)
                      d == CreateDnsRecord(records, lease.hostname, lease.ip_address,
                                           outcome # "dns_fail")
                      dnsStep == IF enable_dns THEN <<"dns">> ELSE <<>>
                  IN  IF outcome = "commit_fail"
                      THEN [ret |-> FALSE, hosts |-> Rollback(rows, pending), dns |-> records,
                            trace |-> <<"connect", "execute", "commit_raises", "close">>]
                      ELSE [ret |-> d.ok, hosts |-> Commit(rows, pending), dns |-> d.dns,
                            trace |-> <<"connect", "execute", "commit">> \o dnsStep \o <<"close">>]

\* LeaseProcessor.create_static_reservation: [ret, hosts, dns, trace], trace being the
\* collaborator calls made, in order.
CreateStaticReservation(lease, rows, records, outcome) ==
    IF ~db_enabled THEN Refused(rows, records, <<>>)
    ELSE IF ~Truthy(lease.hostname) THEN Refused(rows, records, <<>>)
    ELSE IF lease.mac_address = None THEN Refused(rows, records, <<>>)   \* AttributeError
    ELSE IF outcome = "connect_fail" THEN Refused(rows, records, <<"connect">>)
    ELSE LET mac_hex == MacHex(lease.mac_address)
         IN  IF outcome = "upsert_fail" \/ ~ValidHex(mac_hex)
             THEN [ret |-> FALSE, hosts |-> Rollback(rows, rows), dns |-> records,
                   trace |-> <<"connect", "execute", "close">>]
             ELSE LET pending == Upsert(rows, mac_hex, lease.ip_address, lease.hostname)
                      d == CreateDnsRecord(records, lease.hostname, lease.ip_address,
                                           outcome # "dns_fail")
                      dnsStep == IF enable_dns THEN <<"dns">> ELSE <<>>
                  IN  IF ~d.ok
                      THEN [ret |-> FALSE, hosts |-> Rollback(rows, pending), dns |-> d.dns,
                            trace |-> <<"connect", "execute">> \o dnsStep \o <<"rollback", "close">>]
                      ELSE IF outcome = "commit_fail"
                      THEN [ret |-> FALSE, hosts |-> Rollback(rows, pending), dns |-> d.dns,
                            trace |-> <<"connect", "execute">> \o dnsStep \o <<"commit_raises", "close">>]
                      ELSE [ret |-> TRUE, hosts |-> Commit(rows, pending), dns |-> d.dns,
                            trace |-> <<"connect", "execute">> \o dnsStep \o <<"commit", "close">>]

\* The record kept of one create_static_reservation call.
Call(lease, outcome, r, rows, records) ==
    [lease |-> lease, outcome |-> outcome, ret |-> r.ret, trace |-> r.trace,
     hosts_changed |-> r.hosts # rows, dns_changed |-> r.dns # records]

\* An outcome the environment can produce for this call: without the DNS step there is
\* no DNS failure, and a call that never reaches the database meets none.
OutcomeApplies(lease, outcome) ==
    \/ outcome = "ok"
    \/ /\ db_enabled /\ Truthy(lease.hostname) /\ lease.mac_address # None
       /\ (outcome = "dns_fail" => enable_dns /\ dns_available)

----------------------------------------------------------------------------
(* Cabinet inventory files *)

\* One entry of bmc_targets as yaml.dump writes it; a key the writer leaves out is <<>>
\* (or "" for manufacturer), which is also what target.get(key, '') reads for it.
Target(ip, mac, hostname, rack_unit, manufacturer) ==
    [ip |-> ip, mac |-> mac, hostname |-> hostname, rack_unit |-> rack_unit,
     manufacturer |-> manufacturer]

NoMeta ==
    [site |-> <<>>, cabinet |-> <<>>, total_count |-> 0]

\* {site}-{cabinet}-discovery.yml does not exist.
NoFile ==
    [exists |-> FALSE, bmc_targets |-> <<>>, metadata |-> NoMeta]

\* One value of existing_bmc_map, with its key.
Details(ip, mac, hostname, manufacturer) ==
    [ip |-> ip, mac |-> mac, hostname |-> hostname, manufacturer |-> manufacturer]

\* A map in which no address is ever found.
InMapNever(map, ip) ==
    FALSE

\* ip in existing_bmc_map (a dict, kept here in insertion order)
InMap(map, ip) ==
    \E i \in 1..Len(map) : map[i].ip = ip

\* existing_bmc_map[e.ip] = e
MapSet(map, e) ==
    IF InMap(map, e.ip)
    THEN [i \in 1..Len(map) |-> IF map[i].ip = e.ip THEN e ELSE map[i]]
    ELSE Append(map, e)

\* ':'.join(mac_hex[i:i+2] for i in range(0, len(mac_hex), 2))
RECURSIVE Colonize(_)
Colonize(hex) ==
    IF Len(hex) <= 2 THEN hex
    ELSE SubSeq(hex, 1, 2) \o <<":">> \o Colonize(SubSeq(hex, 3, Len(hex)))

\* Kea's lease4 table as _query_lease_details can find it: address, hwaddr, hostname.
\* The table holds the leases of now: 10.0.0.1 is held by the device of L4, and
\* 10.0.0.3 has gone to a device of another cabinet.
Lease4 ==
    {[address |-> IpIntOf[l.ip_address], hwaddr |-> MacHex(l.mac_address), hostname |-> l.hostname]
        : l \in {L2, L4, Lease(IP3, MACB, H_DV)}}

\* LeaseProcessor._query_lease_details: the row of lease4 for the address, if there is one.
QueryLeaseDetails(ip_address) ==
    IF ~db_enabled THEN Details(ip_address, <<>>, <<>>, "")
    ELSE LET rows == {r \in Lease4 : r.address = IpIntOf[ip_address]}
         IN  IF rows # {}
             THEN LET r == CHOOSE x \in rows : TRUE
                  IN  Details(ip_address, Lower(Colonize(Lower(r.hwaddr))), r.hostname,
                              IF Truthy(r.hostname) THEN ManufacturerOf[r.hostname] ELSE "")
             ELSE Details(ip_address, <<>>, <<>>, "")

\* New format: mac/hostname/manufacturer are read from each target.
RECURSIVE LoadNewFormat(_, _)
LoadNewFormat(targets, map) ==
    IF targets = <<>> THEN map
    ELSE LET t == Head(targets)
         IN  LoadNewFormat(Tail(targets), MapSet(map, Details(t.ip, t.mac, t.hostname, t.manufacturer)))

\* Old format: only the ips are read; the details come from _query_lease_details.
RECURSIVE LoadOldFormat(_, _)
LoadOldFormat(targets, map) ==
    IF targets = <<>> THEN map
    ELSE LoadOldFormat(Tail(targets), MapSet(map, QueryLeaseDetails(Head(targets).ip)))

\* The file is taken to be in the new format when its first target has a 'mac' key.
IsNewFormat(targets) ==
    targets # <<>> /\ Truthy(targets[1].mac)

\* _update_cabinet_inventory, lines 1132-1171: existing_bmc_map read from the file.
LoadExisting(file) ==
    IF ~file.exists THEN <<>>
    ELSE IF IsNewFormat(file.bmc_targets) THEN LoadNewFormat(file.bmc_targets, <<>>)
    ELSE LoadOldFormat(file.bmc_targets, <<>>)

\* Line 1192: the reservation call r made for a lease just added, recorded in st.
Reserved(st, added, lease, outcome, r) ==
    [added EXCEPT
        !.new_hostnames = Append(@, lease.hostname),
        !.hosts = r.hosts,
        !.dns = r.dns,
        !.calls = Append(@, Call(lease, outcome, r, st.hosts, st.dns))]

\* A merge loop that drops the leases that come after a failed reservation call.
AdmitUntilFailure(st, added, lease, outcome) ==
    IF \E i \in 1..Len(st.calls) : ~st.calls[i].ret THEN st
    ELSE IF ~Truthy(lease.hostname) THEN added
    ELSE Reserved(st, added, lease, outcome,
                  CreateStaticReservation(lease, st.hosts, st.dns, outcome))

\* Lines 1180-1192: a lease whose ip is not in existing_bmc_map yet; added is st with
\* the new entry.
Admit(st, added, lease, outcome) ==
    IF ~Truthy(lease.hostname) THEN added
    ELSE Reserved(st, added, lease, outcome,
                  CreateStaticReservation(lease, st.hosts, st.dns, outcome))

\* A merge loop that calls create_static_reservation for known addresses too.
MergeStepReserveKnown(st, lease, outcome) ==
    IF InMap(st.map, lease.ip_address) THEN Admit(st, st, lease, outcome)
    ELSE Admit(st,
               [st EXCEPT
                   !.map = Append(@, Details(lease.ip_address, lease.mac_address,
                               lease.hostname,
                               IF Truthy(lease.hostname)
                               THEN ManufacturerOf[lease.hostname] ELSE "")),
                   !.new_lease_count = @ + 1],
               lease, outcome)

\* One pass of the merge loop, lines 1177-1192. st carries existing_bmc_map, the
\* counters, the two external systems and the record of the calls made.
MergeStep(st, lease, outcome) ==
    IF InMap(st.map, lease.ip_address) THEN st
    ELSE Admit(st,
               [st EXCEPT
                   !.map = Append(@, Details(lease.ip_address, lease.mac_address,
                               lease.hostname,
                               IF Truthy(lease.hostname)
                               THEN ManufacturerOf[lease.hostname] ELSE "")),
                   !.new_lease_count = @ + 1],
               lease, outcome)

\* The merge loop over the leases of one cabinet: group is the positions in the batch.
RECURSIVE MergeLeases(_, _, _, _)
MergeLeases(st, batch, group, outs) ==
    IF group = <<>> THEN st
    ELSE MergeLeases(MergeStep(st, batch[Head(group)], outs[Head(group)]),
                     batch, Tail(group), outs)

\* Lines 1194-1212: one target per entry of existing_bmc_map; the rack-unit display is
\* formatted from the hostname, mac and manufacturer are copied when they are truthy.
BuildTarget(d) ==
    Target(d.ip,
           IF Truthy(d.mac) THEN d.mac ELSE <<>>,
           IF Truthy(d.hostname) THEN d.hostname ELSE <<>>,
           IF Truthy(d.hostname) THEN RackUnitDisplayOf[d.hostname] ELSE <<>>,
           d.manufacturer)

BuildTargets(map) ==
    [i \in 1..Len(map) |-> BuildTarget(map[i])]

----------------------------------------------------------------------------
(* Conflict detection *)

\* The keys of a dict in insertion order: the distinct elements of s, first occurrence first.
RECURSIVE Distinct(_, _)
Distinct(s, acc) ==
    IF s = <<>> THEN acc
    ELSE Distinct(Tail(s),
                  IF \E i \in 1..Len(acc) : acc[i] = Head(s) THEN acc ELSE Append(acc, Head(s)))

\* [f(s[i]) : i], as a sequence
IpsOf(targets) ==
    [i \in 1..Len(targets) |-> targets[i].ip]

RECURSIVE InsertStr(_, _)
InsertStr(sorted, x) ==
    IF sorted = <<>> THEN <<x>>
    ELSE IF StrLess(x, Head(sorted)) THEN <<x>> \o sorted
    ELSE <<Head(sorted)>> \o InsertStr(Tail(sorted), x)

\* sorted(ips)
RECURSIVE SortStrings(_)
SortStrings(s) ==
    IF s = <<>> THEN <<>>
    ELSE InsertStr(SortStrings(SubSeq(s, 1, Len(s) - 1)), s[Len(s)])

\* (ip, hostname) tuples compare by ip, then by hostname.
DeviceLess(a, b) ==
    \/ StrLess(a[1], b[1])
    \/ a[1] = b[1] /\ StrLess(a[2], b[2])

RECURSIVE InsertDevice(_, _)
InsertDevice(sorted, x) ==
    IF sorted = <<>> THEN <<x>>
    ELSE IF DeviceLess(x, Head(sorted)) THEN <<x>> \o sorted
    ELSE <<Head(sorted)>> \o InsertDevice(Tail(sorted), x)

\* sorted(devices)
RECURSIVE SortDevices(_)
SortDevices(s) ==
    IF s = <<>> THEN <<>>
    ELSE InsertDevice(SortDevices(SubSeq(s, 1, Len(s) - 1)), s[Len(s)])

\* A mac check that warns once per ip after the first and cites only that ip.
MacConflictsPerDuplicate(bmc_targets) ==
    LET withMac == SelectSeq(bmc_targets, LAMBDA t : Truthy(t.mac))
        dup     == SelectSeq([i \in 1..Len(withMac) |-> i],
                             LAMBDA i : \E j \in 1..(i - 1) : withMac[j].mac = withMac[i].mac)
    IN  [i \in 1..Len(dup) |-> [mac |-> withMac[dup[i]].mac, ips |-> <<withMac[dup[i]].ip>>]]

\* mac_to_ips, as the warnings it leads to: one per mac that is on more than one ip.
MacConflicts(bmc_targets) ==
    LET withMac == SelectSeq(bmc_targets, LAMBDA t : Truthy(t.mac))
        macs    == Distinct([i \in 1..Len(withMac) |-> withMac[i].mac], <<>>)
        ipsOf(m) == IpsOf(SelectSeq(withMac, LAMBDA t : t.mac = m))
        hit     == SelectSeq(macs, LAMBDA m : Len(ipsOf(m)) > 1)
    IN  [i \in 1..Len(hit) |-> [mac |-> hit[i], ips |-> SortStrings(ipsOf(hit[i]))]]

\* Hostname warnings that cite the ips in the order of the targets.
HostnameConflictsUnsorted(bmc_targets) ==
    LET withName == SelectSeq(bmc_targets, LAMBDA t : Truthy(t.hostname))
        names    == Distinct([i \in 1..Len(withName) |-> withName[i].hostname], <<>>)
        ipsOf(h) == IpsOf(SelectSeq(withName, LAMBDA t : t.hostname = h))
        hit      == SelectSeq(names, LAMBDA h : Len(ipsOf(h)) > 1)
    IN  [i \in 1..Len(hit) |-> [hostname |-> hit[i], ips |-> ipsOf(hit[i])]]

\* hostname_to_ips, as the warnings it leads to.
HostnameConflicts(bmc_targets) ==
    LET withName == SelectSeq(bmc_targets, LAMBDA t : Truthy(t.hostname))
        names    == Distinct([i \in 1..Len(withName) |-> withName[i].hostname], <<>>)
        ipsOf(h) == IpsOf(SelectSeq(withName, LAMBDA t : t.hostname = h))
        hit      == SelectSeq(names, LAMBDA h : Len(ipsOf(h)) > 1)
    IN  [i \in 1..Len(hit) |-> [hostname |-> hit[i], ips |-> SortStrings(ipsOf(hit[i]))]]

\* The (ip, hostname) entries of ru_usage[ru].
DevicePairs(on) ==
    [i \in 1..Len(on) |-> <<on[i].ip, on[i].hostname>>]

DevicesOn(withName, ru) ==
    DevicePairs(SelectSeq(withName, LAMBDA t : ru \in RackUnitRangeOf[t.hostname]))

UnitsOf(withName) ==
    UNION {RackUnitRangeOf[withName[i].hostname] : i \in 1..Len(withName)}

\* ru_usage, as the warnings it leads to: one per rack unit that has more than one
\* (ip, hostname) entry. ru_usage is filled in the iteration order of Python sets, so
\* the warnings are kept as a set.
RackUnitConflicts(bmc_targets) ==
    LET withName == SelectSeq(bmc_targets, LAMBDA t : Truthy(t.hostname))
    IN  {[ru |-> ru, devices |-> SortDevices(DevicesOn(withName, ru))]
            : ru \in {x \in UnitsOf(withName) : Len(DevicesOn(withName, x)) > 1}}

\* What _validate_bmc_conflicts logs: the three lists of warnings, and whether the
\* closing error line is logged.
Warnings(m, h, r) ==
    [mac |-> m, hostname |-> h, rack_unit |-> r,
     conflict_found |-> (m # <<>> \/ h # <<>> \/ r # {})]

\* LeaseProcessor._validate_bmc_conflicts. It returns nothing and raises nothing.
ValidateBmcConflicts(bmc_targets) ==
    Warnings(MacConflicts(bmc_targets), HostnameConflicts(bmc_targets),
             RackUnitConflicts(bmc_targets))

----------------------------------------------------------------------------
(* Sorting and writing *)

\* The sort key of a target: (rack unit, or -1 without a hostname; ip).
SortKeyRu(x) ==
    IF Truthy(x.hostname) THEN RackUnitOf[x.hostname] ELSE -1

\* A sort key that leaves the ip out: ties stay in insertion order.
KeyLessRackUnitOnly(a, b) ==
    SortKeyRu(a) < SortKeyRu(b)

\* Tuple order of the sort keys.
KeyLess(a, b) ==
    \/ SortKeyRu(a) < SortKeyRu(b)
    \/ SortKeyRu(a) = SortKeyRu(b) /\ StrLess(a.ip, b.ip)

\* Insert x after every element whose key is not smaller (the sort is stable).
RECURSIVE InsertTarget(_, _)
InsertTarget(sorted, x) ==
    IF sorted = <<>> THEN <<x>>
    ELSE IF KeyLess(Head(sorted), x) THEN <<x>> \o sorted
    ELSE <<Head(sorted)>> \o InsertTarget(Tail(sorted), x)

\* bmc_targets.sort(key=..., reverse=True)
RECURSIVE SortTargets(_)
SortTargets(s) ==
    IF s = <<>> THEN <<>>
    ELSE InsertTarget(SortTargets(SubSeq(s, 1, Len(s) - 1)), s[Len(s)])

\* The inventory dict handed to yaml.dump (updated_at left out).
Inventory(bmc_targets, key) ==
    [exists |-> TRUE, bmc_targets |-> bmc_targets,
     metadata |-> [site |-> key[1], cabinet |-> key[2], total_count |-> Len(bmc_targets)]]


\* How many targets of a rewrite that fails midway can already be in the file.
MaxKept == 1

\* What the file system does to open(output_file, 'w') + yaml.dump: the write completes,
\* open raises (nothing written), or the write raises after open has truncated the
\* file and at most `kept` targets (and no metadata block) have reached it.
WriteOutcomes ==
    {[kind |-> "ok", kept |-> 0], [kind |-> "open_fail", kept |-> 0]}
        \cup {[kind |-> "partial", kept |-> k] : k \in 0..MaxKept}

\* Lines 1238-1240: the file after the write.
WriteFile(old, inventory, w) ==
    IF w.kind = "ok" THEN inventory
    ELSE IF w.kind = "open_fail" THEN old
    ELSE [exists |-> TRUE,
          bmc_targets |-> SubSeq(inventory.bmc_targets, 1, Min(w.kept, Len(inventory.bmc_targets))),
          metadata |-> NoMeta]

----------------------------------------------------------------------------
(* The reconciler *)

\* sorted(new_hostnames, key=self._extract_rack_unit, reverse=True): x goes behind the
\* hostnames whose rack unit is not lower (the sort is stable).
RECURSIVE InsertHostname(_, _)
InsertHostname(sorted, x) ==
    IF sorted = <<>> THEN <<x>>
    ELSE IF RackUnitOf[Head(sorted)] >= RackUnitOf[x]
    THEN <<Head(sorted)>> \o InsertHostname(Tail(sorted), x)
    ELSE <<x>> \o sorted

RECURSIVE SortHostnames(_)
SortHostnames(s) ==
    IF s = <<>> THEN <<>>
    ELSE InsertHostname(SortHostnames(SubSeq(s, 1, Len(s) - 1)), s[Len(s)])

\* A log that announces every new device on its own.
SummaryPerDevice(key, is_new_cabinet, new_lease_count, new_hostnames) ==
    [i \in 1..Len(new_hostnames) |-> [key |-> key, devices |-> <<new_hostnames[i]>>]]

\* Lines 1242-1260, reached when the write has completed: the "Discovered New Devices
\* In" / "Devices" messages logged for the cabinet, as a sequence of [key, devices].
NewDevicesSummary(key, is_new_cabinet, new_lease_count, new_hostnames) ==
    IF new_lease_count > 0
    THEN <<[key |-> key,
            devices |-> IF is_new_cabinet THEN SortHostnames(new_hostnames)
                        ELSE new_hostnames]>>
    ELSE <<>>

\* A reconciler that keeps the old file when the validation found a conflict.
WriteInventoryUnlessConflict(st, key, m, conflicts, inventory, w) ==
    [files   |-> IF conflicts.conflict_found THEN st.files
                 ELSE [st.files EXCEPT ![key] = WriteFile(@, inventory, w)],
     hosts   |-> m.hosts,
     dns     |-> m.dns,
     calls   |-> m.calls,
     raised  |-> w.kind # "ok",
     reports |-> Append(st.reports,
                    [key |-> key,
                     is_new_cabinet |-> ~st.files[key].exists,
                     before |-> st.files[key],
                     inventory |-> inventory,
                     conflicts |-> conflicts,
                     new_lease_count |-> m.new_lease_count,
                     new_hostnames |-> m.new_hostnames,
                     summary |-> IF w.kind = "ok"
                                 THEN NewDevicesSummary(key, ~st.files[key].exists,
                                          m.new_lease_count, m.new_hostnames)
                                 ELSE <<>>,
                     written |-> w.kind = "ok"])]

\* Lines 1227-1266: the inventory is written over the file; st carries the output
\* directory and the reports of the cabinets done so far, m the merge's result.
WriteInventory(st, key, m, conflicts, inventory, w) ==
    [files   |-> [st.files EXCEPT ![key] = WriteFile(@, inventory, w)],
     hosts   |-> m.hosts,
     dns     |-> m.dns,
     calls   |-> m.calls,
     raised  |-> w.kind # "ok",
     reports |-> Append(st.reports,
                    [key |-> key,
                     is_new_cabinet |-> ~st.files[key].exists,
                     before |-> st.files[key],
                     inventory |-> inventory,
                     conflicts |-> conflicts,
                     new_lease_count |-> m.new_lease_count,
                     new_hostnames |-> m.new_hostnames,
                     summary |-> IF w.kind = "ok"
                                 THEN NewDevicesSummary(key, ~st.files[key].exists,
                                          m.new_lease_count, m.new_hostnames)
                                 ELSE <<>>,
                     written |-> w.kind = "ok"])]

\* Lines 1214-1225: the targets are validated, then sorted.
ValidateAndSort(st, key, m, bmc_targets, w) ==
    WriteInventory(st, key, m, ValidateBmcConflicts(bmc_targets),
                   Inventory(SortTargets(bmc_targets), key), w)

\* Lines 1194-1212: the targets are built from the merged map.
BuildAndWrite(st, key, m, w) ==
    ValidateAndSort(st, key, m, BuildTargets(m.map), w)

\* LeaseProcessor._update_cabinet_inventory for one cabinet. st carries the output
\* directory, the two external systems, the calls made and the reports of the cabinets
\* done so far; raised is whether the write raised.
UpdateCabinetInventory(st, key, batch, group, outs, w) ==
    BuildAndWrite(st, key,
                  MergeLeases([map |-> LoadExisting(st.files[key]), new_lease_count |-> 0,
                               new_hostnames |-> <<>>, hosts |-> st.hosts,
                               dns |-> st.dns, calls |-> st.calls],
                              batch, group, outs),
                  w)

\* grouped_leases: the cabinet keys of the batch, first occurrence first.
GroupKeys(batch) ==
    LET idx == SelectSeq([i \in 1..Len(batch) |-> i],
                         LAMBDA i : CabinetKeyOf[batch[i].hostname] # NoKey)
    IN  Distinct([j \in 1..Len(idx) |-> CabinetKeyOf[batch[idx[j]].hostname]], <<>>)

\* grouped_leases[key]: the positions in the batch of the leases of that cabinet.
GroupOf(batch, key) ==
    SelectSeq([i \in 1..Len(batch) |-> i], LAMBDA i : CabinetKeyOf[batch[i].hostname] = key)

\* The write of every cabinet but number wAt succeeds.
WriteOk ==
    [kind |-> "ok", kept |-> 0]

\* The loop over the cabinets, lines 1106-1109; the write of cabinet number wAt meets w,
\* and an exception ends the loop.
RECURSIVE ProcessGroups(_, _, _, _, _, _, _)
ProcessGroups(st, keys, n, batch, outs, w, wAt) ==
    IF n > Len(keys) \/ st.raised THEN st
    ELSE ProcessGroups(
             UpdateCabinetInventory(st, keys[n], batch, GroupOf(batch, keys[n]), outs,
                                    IF n = wAt THEN w ELSE WriteOk),
             keys, n + 1, batch, outs, w, wAt)

\* Lines 1110-1112: what generate_batch_inventory returns after the loop ended in st.
BatchResult(keys, st) ==
    [ret |-> IF keys = <<>> THEN "none" ELSE IF st.raised THEN "raised" ELSE "file",
     files |-> st.files, hosts |-> st.hosts, dns |-> st.dns, calls |-> st.calls,
     reports |-> st.reports]

\* The loop of generate_batch_inventory over the cabinets in keys.
BatchLoop(dir, rows, records, keys, batch, outs, w, wAt) ==
    BatchResult(keys,
                ProcessGroups([files |-> dir, hosts |-> rows, dns |-> records, calls |-> <<>>,
                               raised |-> FALSE, reports |-> <<>>],
                              keys, 1, batch, outs, w, wAt))

\* LeaseProcessor.generate_batch_inventory from the state (dir, rows, records): ret is
\* "none" (no lease matched), "file" (the last file updated) or "raised" (the exception
\* of a failed write).
GenerateBatchInventory(dir, rows, records, batch, outs, w, wAt) ==
    BatchLoop(dir, rows, records, GroupKeys(batch), batch, outs, w, wAt)

\* A sync that counts every reservation call, whatever it returned.
SyncedCountsCalls(st, lease, outcome, r) ==
    [st EXCEPT
        !.created_count = @ + 1,
        !.hosts = r.hosts,
        !.dns = r.dns,
        !.calls = Append(@, Call(lease, outcome, r, st.hosts, st.dns))]

\* Lines 469-470: the reservation call r made for a lease, counted when it succeeded.
Synced(st, lease, outcome, r) ==
    [st EXCEPT
        !.created_count = IF r.ret THEN @ + 1 ELSE @,
        !.hosts = r.hosts,
        !.dns = r.dns,
        !.calls = Append(@, Call(lease, outcome, r, st.hosts, st.dns))]

\* LeaseProcessor.sync_existing_leases: the loop, one lease at a time.
RECURSIVE SyncLoop(_, _, _, _)
SyncLoop(st, leases, outs, i) ==
    IF i > Len(leases) THEN st
    ELSE LET lease == leases[i]
         IN  IF ~Truthy(lease.hostname)
             THEN SyncLoop([st EXCEPT !.skipped_no_hostname = @ + 1], leases, outs, i + 1)
             ELSE IF CabinetKeyOf[lease.hostname] = NoKey
             THEN SyncLoop([st EXCEPT !.skipped_no_match = @ + 1], leases, outs, i + 1)
             ELSE SyncLoop(Synced(st, lease, outs[i],
                                  CreateStaticReservation(lease, st.hosts, st.dns, outs[i])),
                           leases, outs, i + 1)

SyncExistingLeases(rows, records, leases, outs) ==
    LET st0 == [created_count |-> 0, skipped_no_hostname |-> 0, skipped_no_match |-> 0,
                hosts |-> rows, dns |-> records, calls |-> <<>>]
    IN  IF ~db_enabled THEN st0 ELSE SyncLoop(st0, leases, outs, 1)

----------------------------------------------------------------------------
(* Specification *)

\* Leases in the lease file.
MaxLog == 2

\* Operations the monitor runs (the driver loop of main() has no end).
MaxPasses == 2

\* The subsequences of s with n elements.
RECURSIVE SubSeqsOfLen(_, _)
SubSeqsOfLen(s, n) ==
    IF n = 0 THEN {<<>>}
    ELSE IF Len(s) < n THEN {}
    ELSE {<<Head(s)>> \o x : x \in SubSeqsOfLen(Tail(s), n - 1)} \cup SubSeqsOfLen(Tail(s), n)

\* The lease files: up to MaxLog of the leases, in file order.
LeaseLogs ==
    UNION {SubSeqsOfLen(AllLeases, n) : n \in 1..MaxLog}

\* The batches a source can hand over: the leases of the file not yet processed.
Batches(log) ==
    UNION {SubSeqsOfLen(log, n) : n \in 1..Len(log)}

\* The collaborators fail at most one create_static_reservation call of an operation:
\* the call for lease number f of the batch (0: none) meets outcome o, the others "ok".
OutcomeSeq(batch, f, o) ==
    [i \in 1..Len(batch) |-> IF i = f THEN o ELSE "ok"]

\* The choices (f, o) that differ in effect.
OutcomeChoice(batch, f, o) ==
    /\ f = 0 <=> o = "ok"
    /\ f > 0 => /\ OutcomeApplies(batch[f], o)
                /\ CabinetKeyOf[batch[f].hostname] # NoKey

CabinetKeys ==
    {CabinetKeyOf[h] : h \in Hostnames} \ {NoKey}

\* No operation has run yet.
NoOp ==
    [op |-> "init", ret |-> "none", count |-> 0, batch |-> <<>>, calls |-> <<>>,
     reports |-> <<>>]

\* No hostname is under examination.
NoProbe ==
    [hostname |-> <<>>, done |-> FALSE]

\* No get_new_leases call has been made.
NoPoll ==
    [calls |-> 0, path |-> "none", prev_path |-> "none", batch |-> <<>>, state |-> "missing",
     mtime |-> 0, prev_mtime |-> 0, processed |-> {}, pending |-> <<>>]

\* No lease file is there.
NoLeaseFile ==
    [state |-> "missing", mtime |-> 0, rows |-> <<>>]

\* No InventoryWatcher has been constructed.
NoWatcher ==
    [pc |-> "off"]

\* No lease source exists and main() is not running.
Idle ==
    /\ lease_file = NoLeaseFile
    /\ conn = [socket |-> <<>>, notifies |-> <<>>]
    /\ source = [kind |-> "none"]
    /\ driver = [pc |-> "off"]
    /\ polled = NoPoll

\* A file left in the output directory by an earlier release (the loader's old-format
\* branch is there for such files): one device whose manufacturer and rack-unit text
\* are not what this release derives from its hostname.
LegacyFile ==
    Inventory(<<Target(IP2, MACA, H_RU79, <<"U", "7">>, "Dell")>>, CabinetKeyOf[H_RU79])

\* The output directory when the monitor starts.
StartDirs ==
    {[k \in CabinetKeys |-> IF k = CabinetKeyOf[H_RU79] THEN f ELSE NoFile]
        : f \in {NoFile, LegacyFile}}

Init ==
    /\ db_enabled \in BOOLEAN
    /\ enable_dns \in BOOLEAN
    /\ dns_available \in BOOLEAN
    /\ lease_log \in LeaseLogs
    /\ files \in StartDirs
    /\ hosts = {}
    /\ dns = {}
    /\ passes = 0
    /\ last = NoOp
    /\ probe = NoProbe
    /\ Idle
    /\ watcher = NoWatcher

\* The state after a create_static_reservation call with result r.
Created(lease, o, r) ==
    /\ hosts' = r.hosts
    /\ dns' = r.dns
    /\ last' = [op |-> "create", ret |-> IF r.ret THEN "true" ELSE "false",
                count |-> 0, batch |-> <<lease>>,
                calls |-> <<Call(lease, o, r, hosts, dns)>>,
                reports |-> <<>>]

\* create_static_reservation called on one lease.
CreateReservation ==
    /\ passes < MaxPasses
    /\ passes' = passes + 1
    /\ \E lease \in Leases, o \in Outcomes :
          /\ \E i \in 1..Len(lease_log) : lease_log[i] = lease
          /\ OutcomeApplies(lease, o)
          /\ Created(lease, o, CreateStaticReservation(lease, hosts, dns, o))
    /\ UNCHANGED <<watcher, db_enabled, enable_dns, dns_available, lease_log, files, probe, watch>>

\* The state after sync_existing_leases with result r.
SyncedAll(r) ==
    /\ hosts' = r.hosts
    /\ dns' = r.dns
    /\ last' = [op |-> "sync_existing", ret |-> "count",
                count |-> r.created_count, batch |-> lease_log,
                calls |-> r.calls, reports |-> <<>>,
                skipped_no_hostname |-> r.skipped_no_hostname,
                skipped_no_match |-> r.skipped_no_match]

\* sync_existing_leases called on the leases of the lease file.
SyncExisting ==
    /\ passes < MaxPasses
    /\ passes' = passes + 1
    /\ \E f \in 0..Len(lease_log), o \in Outcomes :
          /\ OutcomeChoice(lease_log, f, o)
          /\ SyncedAll(SyncExistingLeases(hosts, dns, lease_log, OutcomeSeq(lease_log, f, o)))
    /\ UNCHANGED <<watcher, db_enabled, enable_dns, dns_available, lease_log, files, probe, watch>>

\* The state after generate_batch_inventory with result r.
Reconciled(batch, r) ==
    /\ files' = r.files
    /\ hosts' = r.hosts
    /\ dns' = r.dns
    /\ last' = [op |-> "reconcile", ret |-> r.ret, count |-> 0, batch |-> batch,
                calls |-> r.calls, reports |-> r.reports]

\* generate_batch_inventory called on a batch of new leases. A pass meets at most one
\* failure: of one reservation call, or of the write of cabinet number wAt.
Reconcile ==
    /\ passes < MaxPasses
    /\ passes' = passes + 1
    /\ \E batch \in Batches(lease_log), f \in 0..Len(lease_log), o \in Outcomes,
          w \in WriteOutcomes, wAt \in 1..Len(lease_log) :
          /\ f <= Len(batch)
          /\ OutcomeChoice(batch, f, o)
          /\ wAt <= Max(1, Len(GroupKeys(batch)))
          /\ w.kind = "ok" => wAt = 1
          /\ o = "ok" \/ w.kind = "ok"
          /\ Reconciled(batch,
                        GenerateBatchInventory(files, hosts, dns, batch,
                                               OutcomeSeq(batch, f, o), w, wAt))
    /\ UNCHANGED <<watcher, db_enabled, enable_dns, dns_available, lease_log, probe, watch>>

Next ==
    \/ CreateReservation
    \/ SyncExisting
    \/ Reconcile

Spec ==
    Init /\ [][Next]_vars

----------------------------------------------------------------------------
(* Properties of the reservation / DNS transaction *)

Elems(s) ==
    {s[i] : i \in 1..Len(s)}

\* The call went as far as the DNS step.
ReachedDns(call) ==
    "dns" \in Elems(call.trace)

\* The store has a reservation for the hostname iff DNS has its record.
Agree(rows, records, hostname) ==
    (\E r \in rows : r.hostname = hostname) <=> (\E d \in records : d.hostname = hostname)

\* C1: a create_static_reservation call whose upsert succeeded and whose DNS creation
\* failed (DNS enabled) returned False, and the reservation store after the call is
\* the store before it.
DnsFailureLeavesStore ==
    \A c \in Elems(last.calls) :
        (c.outcome = "dns_fail" /\ ReachedDns(c)) => (~c.ret /\ ~c.hosts_changed)

\* A call on a non-empty store met a DNS failure after its upsert.
DnsFailureSeen ==
    /\ hosts # {}
    /\ \E c \in Elems(last.calls) : c.outcome = "dns_fail" /\ ReachedDns(c) /\ ~c.ret

\* C2: with DNS enabled (and its client modules present) and a store and a DNS that
\* agree on every hostname, after a create_static_reservation call, whatever step
\* failed, the store holds a reservation for the lease's hostname iff DNS holds the
\* record for it.
StoreAndDnsAgree ==
    [][(/\ enable_dns /\ dns_available
        /\ last'.op = "create"
        /\ \A h \in Hostnames : Agree(hosts, dns, h))
           => Agree(hosts', dns', last'.batch[1].hostname)]_vars

\* C3: a create_static_reservation call that returned False left the reservation store
\* and the DNS as they were before the call.
FailureLeavesNoPartialState ==
    \A c \in Elems(last.calls) : ~c.ret => (~c.hosts_changed /\ ~c.dns_changed)

----------------------------------------------------------------------------
(* Properties of the reconciler *)

\* The targets of the cabinet file, as a set.
TargetsIn(file) ==
    Elems(file.bmc_targets)

\* C4: a reconcile pass on the batch of the pass before it (both completed) leaves
\* every inventory file as the first pass wrote it.
ReconcileIdempotent ==
    [][(/\ last.op = "reconcile" /\ last.ret = "file"
        /\ last'.op = "reconcile" /\ last'.ret = "file"
        /\ last'.batch = last.batch)
           => files' = files]_vars

\* C5: in every inventory written by a reconcile pass, the rack-unit display and the
\* manufacturer of each target are the values derived from the target's hostname.
DerivedFromHostname ==
    \A r \in Elems(last.reports) :
        r.written =>
            \A t \in TargetsIn(files[r.key]) :
                IF t.hostname # <<>>
                THEN /\ t.rack_unit = FormatRackUnit(t.hostname)
                     /\ t.manufacturer = DetectManufacturer(t.hostname)
                ELSE t.rack_unit = <<>> /\ t.manufacturer = ""

\* The first lease of the batch with the ip of target t, if the batch has one for cabinet k.
FirstFor(batch, k, ip) ==
    LET idx == {i \in 1..Len(batch) :
                   batch[i].ip_address = ip /\ ExtractSiteAndCabinet(batch[i].hostname) = k}
    IN  IF idx = {} THEN {} ELSE {batch[CHOOSE i \in idx : \A j \in idx : i <= j]}

\* C6: first-write-wins. After a completed reconcile pass, every ip of the file before
\* the pass keeps its mac, hostname and manufacturer, and every ip new to the file has
\* the mac and hostname of the first lease of the batch for it.
FirstWriteWins ==
    [][(last'.op = "reconcile" /\ last'.ret = "file") =>
          \A r \in Elems(last'.reports) :
              /\ \A t \in TargetsIn(files[r.key]) :
                     \E u \in TargetsIn(files'[r.key]) :
                         /\ u.ip = t.ip /\ u.mac = t.mac /\ u.hostname = t.hostname
                         /\ u.manufacturer = t.manufacturer
              /\ \A u \in TargetsIn(files'[r.key]) :
                     (\A t \in TargetsIn(files[r.key]) : t.ip # u.ip) =>
                         \A l \in FirstFor(last'.batch, r.key, u.ip) :
                             /\ u.hostname = l.hostname
                             /\ u.mac = (IF Truthy(l.mac_address) THEN l.mac_address ELSE <<>>)]_vars

\* The leases of the model whose hostname is outside the convention: rack1-nohyphen,
\* and no hostname.
Unconventional ==
    {L5, L6}

\* C7: a lease whose hostname does not match {site}-cab{number}-... is in no inventory
\* file, and neither a reconcile pass nor sync_existing_leases calls
\* create_static_reservation for it.
UnconventionalExcluded ==
    /\ \A k \in DOMAIN files : \A t \in TargetsIn(files[k]) :
           \A l \in Unconventional : t.ip # l.ip_address
    /\ last.op \in {"reconcile", "sync_existing"} =>
           \A c \in Elems(last.calls) : c.lease \notin Unconventional

\* A reconcile pass wrote a file from a batch that held an unconventional lease too.
UnconventionalSeen ==
    /\ last.op = "reconcile" /\ last.ret = "file"
    /\ \E l \in Elems(last.batch) : l \in Unconventional
    /\ \E r \in Elems(last.reports) : r.new_lease_count > 0

\* C8: after a reconcile pass, whether its write completed or failed midway, each file
\* it touched holds the complete inventory of before the pass or the complete new one.
RewriteIsAtomic ==
    \A r \in Elems(last.reports) : files[r.key] \in {r.before, r.inventory}

\* C9: conflicts never block the write. When the file system completes the write, the
\* file holds every ip of the old file and of the batch's leases for the cabinet,
\* conflicts or not.
ConflictsNeverBlockWrite ==
    \A r \in Elems(last.reports) :
        r.written =>
            /\ files[r.key].exists
            /\ \A t \in TargetsIn(r.before) :
                   \E u \in TargetsIn(files[r.key]) : u.ip = t.ip
            /\ \A l \in Elems(last.batch) :
                   ExtractSiteAndCabinet(l.hostname) = r.key =>
                       \E u \in TargetsIn(files[r.key]) : u.ip = l.ip_address

\* A pass that found a conflict among the targets and admitted a lease wrote the file.
ConflictWritten ==
    \E r \in Elems(last.reports) :
        /\ r.written /\ r.conflicts.conflict_found /\ r.new_lease_count > 0
        /\ Len(files[r.key].bmc_targets) > 1

\* C10: two targets with the same mac and different ips lead to exactly one
\* mac-conflict warning for that mac, and the warning cites both ips.
OneMacWarningCitingBoth ==
    \A r \in Elems(last.reports) :
        \A a, b \in TargetsIn(r.inventory) :
            (a.mac # <<>> /\ a.mac = b.mac /\ a.ip # b.ip) =>
                /\ Cardinality({i \in 1..Len(r.conflicts.mac) :
                                   r.conflicts.mac[i].mac = a.mac}) = 1
                /\ \A w \in Elems(r.conflicts.mac) :
                       w.mac = a.mac => {a.ip, b.ip} \subseteq Elems(w.ips)

\* A pass on two leases with one mac and two ips reported the conflict.
MacConflictSeen ==
    /\ last.op = "reconcile" /\ last.batch = <<L1, L2>>
    /\ \E r \in Elems(last.reports) : Len(r.conflicts.mac) = 1

----------------------------------------------------------------------------
(* Properties of the written order *)

\* Target a may stand right before target b: a higher rack unit first, within one rack
\* unit the higher ip string first, and a target without hostname after every target
\* with one.
MayPrecede(a, b) ==
    IF a.hostname # <<>> /\ b.hostname # <<>>
    THEN \/ ExtractRackUnit(a.hostname) > ExtractRackUnit(b.hostname)
         \/ /\ ExtractRackUnit(a.hostname) = ExtractRackUnit(b.hostname)
            /\ StrLess(b.ip, a.ip)
    ELSE IF a.hostname # <<>> THEN TRUE
    ELSE b.hostname = <<>> /\ StrLess(b.ip, a.ip)

\* C11: in every inventory file written by a reconcile pass the targets are in
\* descending order of the rack unit of their hostname, ties broken by ip (descending,
\* as strings), and the targets without hostname come last, ordered by ip.
WrittenInRackOrder ==
    \A r \in Elems(last.reports) :
        r.written =>
            \A i \in 1..(Len(files[r.key].bmc_targets) - 1) :
                MayPrecede(files[r.key].bmc_targets[i], files[r.key].bmc_targets[i + 1])

\* A written file holds two targets of one rack unit, admitted in ascending ip order.
RackUnitTieWritten ==
    /\ last.op = "reconcile" /\ last.batch = <<L2, L3>>
    /\ \E r \in Elems(last.reports) :
           /\ r.written /\ r.new_lease_count = 2
           /\ Len(files[r.key].bmc_targets) = 2

----------------------------------------------------------------------------
(* The rack-unit functions on their own *)

\* The digit strings a rack-unit token is written with.
RuNumbers ==
    {<<"0">>, <<"5">>, <<"0", "5">>, <<"7">>, <<"9">>, <<"1", "7">>}

\* What precedes and follows the token in a hostname.
RuPrefixes ==
    {<<"u", "s", "3", "-", "c", "a", "b", "1", "0", "-">>, <<"D", "V", "-", "C", "A", "B", "2", "-">>}

RuSuffix ==
    <<"-", "i", "d", "r", "a", "c">>

\* A hostname with the token ru<nn> (mm = <<>>) or ru<nn>-<mm>, kept with its parts.
TokenHost(prefix, ru, nn, mm) ==
    [hostname |-> prefix \o ru \o nn \o (IF mm = <<>> THEN <<>> ELSE <<"-">> \o mm) \o RuSuffix,
     token |-> TRUE, nn |-> nn, mm |-> mm, done |-> FALSE]

\* A hostname without a token.
PlainHost(hostname) ==
    [hostname |-> hostname, token |-> FALSE, nn |-> <<>>, mm |-> <<>>, done |-> FALSE]

\* The hostnames examined.
Probes ==
    {TokenHost(p, <<"r", "u">>, nn, mm) : p \in RuPrefixes, nn \in RuNumbers, mm \in RuNumbers \cup {<<>>}}
        \cup {TokenHost(p, <<"R", "U">>, nn, <<>>) : p \in RuPrefixes, nn \in RuNumbers}
        \cup {PlainHost(h) : h \in {<<>>, H_BAD, <<"u", "s", "3", "-", "c", "a", "b", "1", "-", "x">>}}

\* Everything but the probe is at rest.
AtRest ==
    /\ db_enabled = FALSE
    /\ enable_dns = FALSE
    /\ dns_available = FALSE
    /\ lease_log = <<>>
    /\ files = [k \in CabinetKeys |-> NoFile]
    /\ hosts = {}
    /\ dns = {}
    /\ passes = 0
    /\ last = NoOp

InitRackUnit ==
    /\ AtRest
    /\ Idle
    /\ probe \in Probes
    /\ watcher = NoWatcher

\* The three functions are applied to the hostname.
RackUnitCalls ==
    /\ ~probe.done
    /\ probe' = [probe EXCEPT !.done = TRUE]
                    @@ [units   |-> GetRackUnitRange(probe.hostname),
                        highest |-> ExtractRackUnit(probe.hostname),
                        display |-> FormatRackUnit(probe.hostname)]
    /\ UNCHANGED <<watcher, db_enabled, enable_dns, dns_available, lease_log, files, hosts, dns, passes,
                   last, watch>>

NextRackUnit ==
    RackUnitCalls

SpecRackUnit ==
    InitRackUnit /\ [][NextRackUnit]_vars

\* The reference results for a token ru<nn> or ru<nn>-<mm>.
RefLow(p) ==
    IF p.mm = <<>> THEN ParseInt(p.nn) ELSE Min(ParseInt(p.nn), ParseInt(p.mm))

RefHigh(p) ==
    IF p.mm = <<>> THEN ParseInt(p.nn) ELSE Max(ParseInt(p.nn), ParseInt(p.mm))

RefDisplay(p) ==
    IF p.mm = <<>> THEN <<"R", "U", " ">> \o IntToStr(ParseInt(p.nn))
    ELSE <<"R", "U", " ">> \o IntToStr(RefHigh(p)) \o <<"-">> \o IntToStr(RefLow(p))

\* C12: the unit set, the highest unit and the display string of a hostname are those
\* of the reference definition: {NN}, NN, "RU NN" for a token ru<NN>; min..max, max,
\* "RU max-min" for a token ru<NN>-<MM>; the empty set, 0 and "" without a token.
RackUnitAsReference ==
    probe.done =>
        IF probe.token
        THEN /\ probe.units = RefLow(probe)..RefHigh(probe)
             /\ probe.highest = RefHigh(probe)
             /\ probe.display = RefDisplay(probe)
        ELSE probe.units = {} /\ probe.highest = 0 /\ probe.display = <<>>

----------------------------------------------------------------------------
(* DNS consistency check *)

\* str(ipaddress.IPv4Address(n)) for 0 <= n < 2^32.
IntToIp(n) ==
    IntToStr(n \div 16777216) \o <<".">> \o IntToStr((n \div 65536) % 256) \o <<".">>
        \o IntToStr((n \div 256) % 256) \o <<".">> \o IntToStr(n % 256)

\* LeaseProcessor.dns_record_exists: the lookup finds a record of that name; without
\* DNS, without the modules, or when the lookup raises (works = FALSE), it answers False.
DnsRecordExists(records, hostname, works) ==
    /\ enable_dns
    /\ dns_available
    /\ works
    /\ \E r \in records : r.hostname = hostname

\* ORDER BY hostname: row a comes before row b; rows of one hostname come in the order
\* the database picks (by address, ascending or descending).
RowBefore(a, b, ties) ==
    IF a.hostname # b.hostname THEN StrLess(a.hostname, b.hostname)
    ELSE IF ties = "asc" THEN a.ipv4_address < b.ipv4_address
    ELSE a.ipv4_address > b.ipv4_address

\* Lines 627-636: the reservations with a hostname and an address, ordered.
RECURSIVE Reservations(_, _)
Reservations(rows, ties) ==
    IF rows = {} THEN <<>>
    ELSE LET first == CHOOSE a \in rows : \A b \in rows \ {a} : RowBefore(a, b, ties)
         IN  <<first>> \o Reservations(rows \ {first}, ties)

\* Lines 648-651 for one reservation: a record is created when none is found.
CheckAndCreate(st, hostname, ip_address, found, create_works) ==
    IF found THEN st
    ELSE [st EXCEPT
            !.dns = CreateDnsRecord(st.dns, hostname, ip_address, create_works).dns,
            !.created_count = IF CreateDnsRecord(st.dns, hostname, ip_address, create_works).ok
                              THEN @ + 1 ELSE @,
            !.attempts = Append(@, [hostname |-> hostname, ip |-> ip_address,
                                     existed |-> \E r \in st.dns : r.hostname = hostname,
                                     ok |-> CreateDnsRecord(st.dns, hostname, ip_address,
                                                            create_works).ok])]

\* The loop of lines 639-653; the lookup of reservation number lookup_fails raises and
\* the creation for reservation number create_fails fails (0: none).
RECURSIVE DnsSyncLoop(_, _, _, _, _)
DnsSyncLoop(st, reservations, i, lookup_fails, create_fails) ==
    IF i > Len(reservations) THEN st
    ELSE DnsSyncLoop(
             CheckAndCreate(st, reservations[i].hostname, IntToIp(reservations[i].ipv4_address),
                            DnsRecordExists(st.dns, reservations[i].hostname, i # lookup_fails),
                            i # create_fails),
             reservations, i + 1, lookup_fails, create_fails)

\* LeaseProcessor.sync_dns_records from the store rows and the DNS records:
\* [created_count, dns, attempts], attempts being the create_dns_record calls made.
SyncDnsRecords(rows, records, connects, ties, lookup_fails, create_fails) ==
    IF ~db_enabled \/ ~enable_dns \/ ~connects
    THEN [created_count |-> 0, dns |-> records, attempts |-> <<>>]
    ELSE DnsSyncLoop([created_count |-> 0, dns |-> records, attempts |-> <<>>],
                     Reservations({r \in rows : r.hostname # <<>>}, ties),
                     1, lookup_fails, create_fails)

\* The row of the reservation store that create_static_reservation writes for a lease.
HostRow(lease) ==
    [dhcp_identifier |-> MacHex(lease.mac_address), ipv4_address |-> IpIntOf[lease.ip_address],
     hostname |-> lease.hostname]

\* The reservation stores the check runs on: rows for L1, L2 (the hostname of L4) and
\* L4, one row per hardware address.
Stores ==
    {s \in SUBSET {HostRow(L1), HostRow(L2), HostRow(L4)} :
        \A a, b \in s : a.dhcp_identifier = b.dhcp_identifier => a = b}

\* The A records the DNS holds when the check runs.
Zones ==
    SUBSET {[hostname |-> H_RU3, ip |-> IP1], [hostname |-> H_RU79, ip |-> IP2]}

InitDnsSync ==
    /\ db_enabled \in BOOLEAN
    /\ enable_dns \in BOOLEAN
    /\ dns_available \in BOOLEAN
    /\ lease_log = <<>>
    /\ files = [k \in CabinetKeys |-> NoFile]
    /\ hosts \in Stores
    /\ dns \in Zones
    /\ passes = 0
    /\ last = NoOp
    /\ probe = NoProbe
    /\ Idle
    /\ watcher = NoWatcher

\* The state after sync_dns_records with result r.
DnsSynced(r, connects, lookup_fails) ==
    /\ dns' = r.dns
    /\ last' = [op |-> "sync_dns", ret |-> "count", count |-> r.created_count,
                attempts |-> r.attempts, lookups_ok |-> lookup_fails = 0,
                connected |-> connects]

\* sync_dns_records called on the store. A run meets at most one failure: of the
\* connection to the store, of one lookup or of one creation.
SyncDns ==
    /\ passes < MaxPasses
    /\ passes' = passes + 1
    /\ \E connects \in BOOLEAN, ties \in {"asc", "desc"}, lookup_fails \in 0..Cardinality(hosts),
          create_fails \in 0..Cardinality(hosts) :
          /\ connects \/ (lookup_fails = 0 /\ create_fails = 0)
          /\ lookup_fails = 0 \/ create_fails = 0
          /\ DnsSynced(SyncDnsRecords(hosts, dns, connects, ties, lookup_fails, create_fails),
                       connects, lookup_fails)
    /\ UNCHANGED <<watcher, db_enabled, enable_dns, dns_available, lease_log, files, hosts, probe, watch>>

NextDnsSync ==
    SyncDns

SpecDnsSync ==
    InitDnsSync /\ [][NextDnsSync]_vars

\* Every creation of the last run succeeded.
AllCreated ==
    /\ last.op = "sync_dns"
    /\ last.connected
    /\ last.lookups_ok
    /\ \A i \in 1..Len(last.attempts) : last.attempts[i].ok

\* C18: a sync_dns_records run that directly follows a run in which every creation
\* succeeded (and whose own lookups work) makes no create_dns_record call, changes no
\* record and returns 0.
SecondDnsSyncCreatesNothing ==
    [][(AllCreated /\ passes' = passes + 1 /\ last'.lookups_ok)
        => (last'.count = 0 /\ last'.attempts = <<>> /\ dns' = dns)]_vars

----------------------------------------------------------------------------
(* Lease sources *)

\* FileLeaseSource.last_mtime before the first read (None, which line 157 tests by
\* truthiness); the modification times of the lease file are positive.
NoMtime == 0

\* int(s) does not raise ValueError.
IsInt(s) ==
    s # <<>> /\ \A i \in 1..Len(s) : IsDigit(s[i])

\* A row of the lease file as csv.reader yields it: address, hwaddr, client_id,
\* valid_lifetime, expire, subnet_id, fqdn_fwd, fqdn_rev, hostname.
CsvRow(lease, expire, subnet_id) ==
    <<lease.ip_address, lease.mac_address, <<>>, <<"6", "0">>, expire, subnet_id, <<"0">>,
      <<"0">>, lease.hostname>>

\* The header line of a Kea lease file.
HeaderRow ==
    <<<<"a", "d", "d", "r", "e", "s", "s">>, <<"h", "w", "a", "d", "d", "r">>, <<"c", "l", "i", "e", "n", "t", "_", "i", "d">>, <<"v", "a", "l", "i", "d", "_", "l", "i", "f", "e", "t", "i", "m", "e">>, <<"e", "x", "p", "i", "r", "e">>, <<"s", "u", "b", "n", "e", "t", "_", "i", "d">>, <<"f", "q", "d", "n", "_", "f", "w", "d">>, <<"f", "q", "d", "n", "_", "r", "e", "v">>, <<"h", "o", "s", "t", "n", "a", "m", "e">>, <<"s", "t", "a", "t", "e">>, <<"u", "s", "e", "r", "_", "c", "o", "n", "t", "e", "x", "t">>>>

\* A line cut short.
ShortRow ==
    <<IP2, MACA, <<>>, <<"6", "0">>>>

\* The rows a lease file is made of: the header, two rows for one address (Kea appends a
\* row each time a lease changes), a row of another subnet, a row outside the hostname
\* convention, a line cut short.
FileRows ==
    <<HeaderRow,
      CsvRow(L1, <<"1", "0", "0">>, <<"1">>),
      CsvRow(L4, <<"2", "0", "0">>, <<"1">>),
      CsvRow(L2, <<"1", "0", "0">>, <<"2">>),
      CsvRow(L5, <<>>, <<"1">>),
      ShortRow>>

\* FileLeaseSource._parse_lease_line: <<>> for None, <<lease>> for a lease.
ParseLeaseLine(line, subnet_filter) ==
    IF Len(line) < 9 THEN <<>>
    ELSE IF line[5] # <<>> /\ ~IsInt(line[5]) THEN <<>>
    ELSE IF subnet_filter # {} /\ line[6] \notin subnet_filter THEN <<>>
    ELSE <<Lease(line[1], line[2], line[9])>>

\* Lines 167-171: the leases of the rows whose address is not in processed_leases.
RECURSIVE ReadNewLeases(_, _, _)
ReadNewLeases(rows, subnet_filter, processed_leases) ==
    IF rows = <<>> THEN <<>>
    ELSE (IF /\ ParseLeaseLine(Head(rows), subnet_filter) # <<>>
             /\ ParseLeaseLine(Head(rows), subnet_filter)[1].ip_address \notin processed_leases
          THEN ParseLeaseLine(Head(rows), subnet_filter)
          ELSE <<>>)
         \o ReadNewLeases(Tail(rows), subnet_filter, processed_leases)

\* FileLeaseSource.__init__
FileSource(subnet_filter) ==
    [kind |-> "file", subnet_filter |-> subnet_filter, processed_leases |-> {},
     last_mtime |-> NoMtime]

\* A source that reads the file on every call.
UnmodifiedNever(src, file) ==
    FALSE

\* Line 157: the file has not been modified since the last call that looked at it.
Unmodified(src, file) ==
    src.last_mtime # NoMtime /\ file.mtime = src.last_mtime

\* A source that returns the leases of every row, processed or not.
FileGetNewLeasesUnfiltered(src, file) ==
    IF file.state = "inaccessible" THEN [source |-> src, batch |-> <<>>, path |-> "raised"]
    ELSE IF file.state = "missing" THEN [source |-> src, batch |-> <<>>, path |-> "missing"]
    ELSE IF Unmodified(src, file) THEN [source |-> src, batch |-> <<>>, path |-> "unmodified"]
    ELSE IF file.state = "unreadable"
    THEN [source |-> [src EXCEPT !.last_mtime = file.mtime], batch |-> <<>>, path |-> "failed"]
    ELSE [source |-> [src EXCEPT !.last_mtime = file.mtime],
          batch |-> ReadNewLeases(file.rows, src.subnet_filter, {}),
          path |-> "read"]

\* Lines 119-126: a row with fewer than 9 fields, or whose expiry int() rejects.
Malformed(line) ==
    Len(line) < 9 \/ (line[5] # <<>> /\ ~IsInt(line[5]))

\* A source whose read fails as a whole when the file holds a malformed row.
FileGetNewLeasesStrict(src, file) ==
    IF file.state = "inaccessible" THEN [source |-> src, batch |-> <<>>, path |-> "raised"]
    ELSE IF file.state = "missing" THEN [source |-> src, batch |-> <<>>, path |-> "missing"]
    ELSE IF Unmodified(src, file) THEN [source |-> src, batch |-> <<>>, path |-> "unmodified"]
    ELSE IF file.state = "unreadable"
    THEN [source |-> [src EXCEPT !.last_mtime = file.mtime], batch |-> <<>>, path |-> "failed"]
    ELSE [source |-> [src EXCEPT !.last_mtime = file.mtime],
          batch |-> IF \E i \in 1..Len(file.rows) : Malformed(file.rows[i]) THEN <<>>
                    ELSE ReadNewLeases(file.rows, src.subnet_filter, src.processed_leases),
          path |-> "read"]

\* FileLeaseSource.get_new_leases on the file as it is: the source after the call, the
\* batch returned, and the path taken ("missing": no file; "raised": exists()/stat()
\* raised, e.g. the directory cannot be searched; "unmodified"; "failed": open raised;
\* "read").
FileGetNewLeases(src, file) ==
    IF file.state = "inaccessible" THEN [source |-> src, batch |-> <<>>, path |-> "raised"]
    ELSE IF file.state = "missing" THEN [source |-> src, batch |-> <<>>, path |-> "missing"]
    ELSE IF Unmodified(src, file) THEN [source |-> src, batch |-> <<>>, path |-> "unmodified"]
    ELSE IF file.state = "unreadable"
    THEN [source |-> [src EXCEPT !.last_mtime = file.mtime], batch |-> <<>>, path |-> "failed"]
    ELSE [source |-> [src EXCEPT !.last_mtime = file.mtime],
          batch |-> ReadNewLeases(file.rows, src.subnet_filter, src.processed_leases),
          path |-> "read"]

\* FileLeaseSource.get_all_leases
FileGetAllLeases(src, file) ==
    IF file.state = "inaccessible" THEN [batch |-> <<>>, path |-> "raised"]
    ELSE IF file.state = "missing" THEN [batch |-> <<>>, path |-> "missing"]
    ELSE IF file.state = "unreadable" THEN [batch |-> <<>>, path |-> "failed"]
    ELSE [batch |-> ReadNewLeases(file.rows, src.subnet_filter, {}), path |-> "read"]

\* mark_processed for every lease of a batch (a no-op for the database source).
MarkProcessed(src, batch) ==
    IF src.kind = "file"
    THEN [src EXCEPT !.processed_leases = @ \cup {batch[i].ip_address : i \in 1..Len(batch)}]
    ELSE src

\* A notification payload: json is "invalid" (json.loads raises), "array" (JSON of
\* another shape than an object) or "object"; a key that is absent or null is <<>>
\* (0 for the address).
Payload(json, hostname, ipv4_address, dhcp_identifier) ==
    [json |-> json, hostname |-> hostname, ipv4_address |-> ipv4_address,
     dhcp_identifier |-> dhcp_identifier]

\* The notifications that arrive: three leases (two of one address, one without
\* hardware identifier), and four that are malformed.
Payloads ==
    {Payload("object", H_RU3, IpIntOf[IP1], <<"a", "a", "0", "1">>),
     Payload("object", H_RU79, IpIntOf[IP1], <<"a", "a", "0", "2">>),
     Payload("object", H_DV, IpIntOf[IP6], <<>>),
     Payload("invalid", <<>>, 0, <<>>),
     Payload("array", <<>>, 0, <<>>),
     Payload("object", <<>>, IpIntOf[IP2], <<"a", "a", "0", "1">>),
     Payload("object", H_RU9, -1, <<"a", "a", "0", "1">>)}

\* DatabaseLeaseSource.__init__
DbSource ==
    [kind |-> "db", processed_lease_ids |-> {}]

\* Lines 283-331: the notifications are popped one by one; path "error" is the outer
\* handler of line 333, which returns an empty batch.
RECURSIVE Drain(_, _, _)
Drain(notifies, processed_lease_ids, new_leases) ==
    IF notifies = <<>>
    THEN [notifies |-> <<>>, processed_lease_ids |-> processed_lease_ids,
          batch |-> new_leases, path |-> "drained"]
    ELSE IF Head(notifies).json = "invalid"                         \* JSONDecodeError
    THEN Drain(Tail(notifies), processed_lease_ids, new_leases)
    ELSE IF Head(notifies).json # "object"                          \* AttributeError
    THEN [notifies |-> Tail(notifies), processed_lease_ids |-> processed_lease_ids,
          batch |-> <<>>, path |-> "error"]
    ELSE IF Head(notifies).hostname = <<>> \/ Head(notifies).ipv4_address = 0
    THEN Drain(Tail(notifies), processed_lease_ids, new_leases)
    ELSE IF Head(notifies).ipv4_address < 0 \/ Head(notifies).ipv4_address \div 65536 >= 65536
    THEN Drain(Tail(notifies), processed_lease_ids, new_leases)     \* AddressValueError
    ELSE IF IntToIp(Head(notifies).ipv4_address) \in processed_lease_ids
    THEN Drain(Tail(notifies), processed_lease_ids, new_leases)
    ELSE Drain(Tail(notifies),
               processed_lease_ids \cup {IntToIp(Head(notifies).ipv4_address)},
               Append(new_leases,
                      Lease(IntToIp(Head(notifies).ipv4_address),
                            IF Head(notifies).dhcp_identifier # <<>>
                            THEN Colonize(Head(notifies).dhcp_identifier) ELSE None,
                            Head(notifies).hostname)))

\* A source that does not keep the addresses it returned.
DrainedForgetful(src, d) ==
    [source |-> src,
     conn |-> [socket |-> <<>>, notifies |-> d.notifies],
     batch |-> d.batch, path |-> d.path]

\* The source and the connection after the loop ended in d.
Drained(src, d) ==
    [source |-> [src EXCEPT !.processed_lease_ids = d.processed_lease_ids],
     conn |-> [socket |-> <<>>, notifies |-> d.notifies],
     batch |-> d.batch, path |-> d.path]

\* DatabaseLeaseSource.get_new_leases: select() or poll() raises (channel_ok = FALSE),
\* nothing arrived within the timeout, or what arrived is polled and drained.
DbGetNewLeases(src, c, channel_ok) ==
    IF ~channel_ok THEN [source |-> src, conn |-> c, batch |-> <<>>, path |-> "channel_error"]
    ELSE IF c.socket = <<>> THEN [source |-> src, conn |-> c, batch |-> <<>>, path |-> "timeout"]
    ELSE Drained(src, Drain(c.notifies \o c.socket, src.processed_lease_ids, <<>>))

----------------------------------------------------------------------------
(* The driver: main() from the construction of the source on *)

\* Rows in the lease file.
MaxRows == 2

\* Modifications of the lease file.
MaxMtime == 3

\* Notifications waiting on the connection.
MaxNotifies == 2

\* Iterations of the monitor loop (the loop of a continuous run has no end).
MaxPolls == 2

\* A command line: --use-database-events, --once, --sync-existing, --use-vault,
\* --subnet-filter.
Args(use_database_events, once, sync_existing, use_vault, subnet_filter) ==
    [use_database_events |-> use_database_events, once |-> once,
     sync_existing |-> sync_existing, use_vault |-> use_vault,
     subnet_filter |-> subnet_filter]

\* The command lines the monitor is started with.
Arguments ==
    {Args(FALSE, FALSE, FALSE, FALSE, {}),
     Args(FALSE, FALSE, TRUE, TRUE, {<<"1">>}),
     Args(FALSE, TRUE, FALSE, FALSE, {}),
     Args(TRUE, FALSE, FALSE, TRUE, {}),
     Args(TRUE, TRUE, FALSE, FALSE, {})}

\* main() with arguments a, about to construct its source.
Started(a) ==
    [pc |-> "start", args |-> a, polls |-> 0, cause |-> "none"]

\* main() has returned or is unwinding.
Stopped(d, cause) ==
    [d EXCEPT !.pc = "stopped", !.cause = cause]

\* Lines 1521-1526: after an iteration the loop ends (--once) or sleeps and goes on.
IterationDone(d) ==
    IF d.args.once THEN Stopped(d, "once") ELSE [d EXCEPT !.pc = "loop"]

\* The lease file when the monitor starts.
LeaseFiles ==
    [state : {"ok", "unreadable", "inaccessible", "missing"}, mtime : {1},
     rows : UNION {SubSeqsOfLen(FileRows, n) : n \in 0..(MaxRows - 1)}]

InitMonitor ==
    /\ db_enabled \in BOOLEAN
    /\ enable_dns = db_enabled
    /\ dns_available = TRUE
    /\ lease_log = <<>>
    /\ files = [k \in CabinetKeys |-> NoFile]
    /\ hosts = {}
    /\ dns = {}
    /\ passes = 0
    /\ last = NoOp
    /\ probe = NoProbe
    /\ driver \in {Started(a) : a \in Arguments}
    /\ lease_file \in IF driver.args.use_database_events THEN {NoLeaseFile} ELSE LeaseFiles
    /\ conn = [socket |-> <<>>, notifies |-> <<>>]
    /\ source = [kind |-> "none"]
    /\ polled = NoPoll
    /\ watcher = NoWatcher

\* Lines 1447-1465: the source is constructed; psycopg2.connect or LISTEN may raise.
Construct ==
    /\ driver.pc = "start"
    /\ \E connects \in BOOLEAN :
          IF driver.args.use_database_events
          THEN IF connects
               THEN source' = DbSource /\ driver' = [driver EXCEPT !.pc = "sync"]
               ELSE source' = source /\ driver' = Stopped(driver, "construction")
          ELSE /\ connects
               /\ source' = FileSource(driver.args.subnet_filter)
               /\ driver' = [driver EXCEPT !.pc = "sync"]
    /\ UNCHANGED <<watcher, db_enabled, enable_dns, dns_available, lease_log, files, hosts, dns, passes,
                   last, probe, lease_file, conn, polled>>

\* Lines 1494-1495 from the store and the DNS as the initial sync left them.
StartupDnsSync(rows, records, connects, ties, lookup_fails, create_fails) ==
    IF enable_dns /\ driver.args.use_vault /\ db_enabled
    THEN dns' = SyncDnsRecords(rows, records, connects, ties, lookup_fails, create_fails).dns
    ELSE dns' = records

\* Lines 1483-1495: the initial sync of the leases of the file (file mode only), which
\* marks them processed, then the DNS consistency check.
Startup ==
    /\ driver.pc = "sync"
    /\ IF driver.args.sync_existing /\ db_enabled /\ ~driver.args.use_database_events
       THEN IF FileGetAllLeases(source, lease_file).path = "raised"
            THEN /\ driver' = Stopped(driver, "startup")
                 /\ UNCHANGED <<hosts, dns, source>>
            ELSE \E f \in 0..MaxRows, o \in Outcomes, connects \in BOOLEAN :
                    /\ f <= Len(FileGetAllLeases(source, lease_file).batch)
                    /\ OutcomeChoice(FileGetAllLeases(source, lease_file).batch, f, o)
                    /\ o = "ok" \/ connects
                    /\ hosts' = SyncExistingLeases(hosts, dns,
                                    FileGetAllLeases(source, lease_file).batch,
                                    OutcomeSeq(FileGetAllLeases(source, lease_file).batch, f, o)).hosts
                    /\ StartupDnsSync(hosts',
                                      SyncExistingLeases(hosts, dns,
                                          FileGetAllLeases(source, lease_file).batch,
                                          OutcomeSeq(FileGetAllLeases(source, lease_file).batch, f, o)).dns,
                                      connects, "asc", 0, 0)
                    /\ source' = MarkProcessed(source, FileGetAllLeases(source, lease_file).batch)
                    /\ driver' = [driver EXCEPT !.pc = "loop"]
       ELSE \E connects \in BOOLEAN :
               /\ StartupDnsSync(hosts, dns, connects, "asc", 0, 0)
               /\ connects \/ (enable_dns /\ driver.args.use_vault /\ db_enabled)
               /\ driver' = [driver EXCEPT !.pc = "loop"]
               /\ UNCHANGED <<hosts, source>>
    /\ UNCHANGED <<watcher, db_enabled, enable_dns, dns_available, lease_log, files, passes, last,
                   probe, lease_file, conn, polled>>

\* What a get_new_leases call leaves for the observer: the path taken (and the one the
\* call before took), the batch, the state and the modification time of the file the
\* call met (and the time the call before met), the processed set and the
\* notifications pending when it was made.
Polled(path, batch) ==
    [calls |-> polled.calls + 1, path |-> path, prev_path |-> polled.path, batch |-> batch,
     state |-> lease_file.state,
     mtime |-> IF source.kind = "file" /\ lease_file.state \in {"ok", "unreadable"}
               THEN lease_file.mtime ELSE NoMtime,
     prev_mtime |-> polled.mtime,
     processed |-> IF source.kind = "file" THEN source.processed_leases
                   ELSE source.processed_lease_ids,
     pending |-> conn.notifies \o conn.socket]

\* A loop that looks at --once as soon as get_new_leases has returned.
AfterPollOnceFirst(path, batch) ==
    IF path = "raised" THEN Stopped([driver EXCEPT !.polls = @ + 1], "poll")
    ELSE IF driver.args.once THEN Stopped([driver EXCEPT !.polls = @ + 1], "once")
    ELSE IF batch # <<>> THEN [driver EXCEPT !.pc = "batch", !.polls = @ + 1]
    ELSE IterationDone([driver EXCEPT !.polls = @ + 1])

\* Lines 1504-1506 and, for an empty batch, 1521-1526: where main() is after a call
\* that took path and returned batch.
AfterPoll(path, batch) ==
    IF path = "raised" THEN Stopped([driver EXCEPT !.polls = @ + 1], "poll")
    ELSE IF batch # <<>> THEN [driver EXCEPT !.pc = "batch", !.polls = @ + 1]
    ELSE IterationDone([driver EXCEPT !.polls = @ + 1])

\* An iteration of the monitor loop calls get_new_leases of the file source.
PollFile ==
    /\ driver.pc = "loop"
    /\ driver.polls < MaxPolls
    /\ source.kind = "file"
    /\ source' = FileGetNewLeases(source, lease_file).source
    /\ polled' = Polled(FileGetNewLeases(source, lease_file).path,
                        FileGetNewLeases(source, lease_file).batch)
    /\ driver' = AfterPoll(FileGetNewLeases(source, lease_file).path,
                           FileGetNewLeases(source, lease_file).batch)
    /\ UNCHANGED <<watcher, db_enabled, enable_dns, dns_available, lease_log, files, hosts, dns, passes,
                   last, probe, lease_file, conn>>

\* An iteration of the monitor loop calls get_new_leases of the database source.
PollDb ==
    /\ driver.pc = "loop"
    /\ driver.polls < MaxPolls
    /\ source.kind = "db"
    /\ \E channel_ok \in BOOLEAN :
          /\ source' = DbGetNewLeases(source, conn, channel_ok).source
          /\ conn' = DbGetNewLeases(source, conn, channel_ok).conn
          /\ polled' = Polled(DbGetNewLeases(source, conn, channel_ok).path,
                              DbGetNewLeases(source, conn, channel_ok).batch)
          /\ driver' = AfterPoll(DbGetNewLeases(source, conn, channel_ok).path,
                                 DbGetNewLeases(source, conn, channel_ok).batch)
    /\ UNCHANGED <<watcher, db_enabled, enable_dns, dns_available, lease_log, files, hosts, dns, passes,
                   last, probe, lease_file>>

\* Lines 1507-1519 with the result r of generate_batch_inventory: the leases are marked
\* processed unless it raised.
Processed(batch, r) ==
    /\ Reconciled(batch, r)
    /\ source' = IF r.ret = "raised" THEN source ELSE MarkProcessed(source, batch)
    /\ driver' = IterationDone(driver)

\* The iteration goes on with a non-empty batch. It meets at most one failure: of one
\* reservation call, or of the write of cabinet number wAt.
ProcessBatch ==
    /\ driver.pc = "batch"
    /\ \E f \in 0..Len(polled.batch), o \in Outcomes, w \in WriteOutcomes,
          wAt \in 1..Len(polled.batch) :
          /\ OutcomeChoice(polled.batch, f, o)
          /\ wAt <= Max(1, Len(GroupKeys(polled.batch)))
          /\ w.kind = "ok" => wAt = 1
          /\ o = "ok" \/ w.kind = "ok"
          /\ Processed(polled.batch,
                       GenerateBatchInventory(files, hosts, dns, polled.batch,
                                              OutcomeSeq(polled.batch, f, o), w, wAt))
    /\ UNCHANGED <<watcher, db_enabled, enable_dns, dns_available, lease_log, passes, probe,
                   lease_file, conn, polled>>

\* Kea appends a row to the lease file.
KeaWrites ==
    /\ driver.pc = "loop"
    /\ driver.polls < MaxPolls
    /\ source.kind = "file"
    /\ Len(lease_file.rows) < MaxRows
    /\ lease_file.mtime < MaxMtime
    /\ \E i \in 1..Len(FileRows) :
          lease_file' = [lease_file EXCEPT !.rows = Append(@, FileRows[i]), !.mtime = @ + 1]
    /\ UNCHANGED <<watcher, db_enabled, enable_dns, dns_available, lease_log, files, hosts, dns, passes,
                   last, probe, conn, source, driver, polled>>

\* The file is moved, or the permissions on it or on its directory change; its
\* modification time stays.
FileStateChanges ==
    /\ driver.pc = "loop"
    /\ driver.polls < MaxPolls
    /\ source.kind = "file"
    /\ \E s \in {"ok", "unreadable", "inaccessible", "missing"} :
          /\ s # lease_file.state
          /\ lease_file' = [lease_file EXCEPT !.state = s]
    /\ UNCHANGED <<watcher, db_enabled, enable_dns, dns_available, lease_log, files, hosts, dns, passes,
                   last, probe, conn, source, driver, polled>>

\* The database trigger sends a notification.
Notified ==
    /\ driver.pc = "loop"
    /\ driver.polls < MaxPolls
    /\ source.kind = "db"
    /\ Len(conn.socket) + Len(conn.notifies) < MaxNotifies
    /\ \E p \in Payloads : conn' = [conn EXCEPT !.socket = Append(@, p)]
    /\ UNCHANGED <<watcher, db_enabled, enable_dns, dns_available, lease_log, files, hosts, dns, passes,
                   last, probe, lease_file, source, driver, polled>>

NextMonitor ==
    \/ Construct
    \/ Startup
    \/ PollFile
    \/ PollDb
    \/ ProcessBatch
    \/ KeaWrites
    \/ FileStateChanges
    \/ Notified

SpecMonitor ==
    InitMonitor /\ [][NextMonitor]_vars

----------------------------------------------------------------------------
(* Properties of the lease sources and of the driver loop *)

\* The last two get_new_leases calls of the file source met the same modification time.
SameMtimeTwice ==
    /\ source.kind = "file"
    /\ polled.calls >= 2
    /\ polled.mtime # NoMtime
    /\ polled.mtime = polled.prev_mtime

FailedReadIsRetried ==
    (source.kind = "file" /\ polled.calls >= 2 /\ polled.prev_path = "failed"
        /\ polled.state = "ok")
    => polled.path = "read"

\* A notification that carries a lease: an object with a hostname and an IPv4 address.
WellFormed(p) ==
    /\ p.json = "object"
    /\ p.hostname # <<>>
    /\ p.ipv4_address > 0
    /\ p.ipv4_address \div 65536 < 65536

\* C15: a get_new_leases call of the database source that went through the pending
\* notifications returns a lease for every well-formed one whose address it had not
\* seen before, whatever malformed payloads were pending with it.
MalformedPayloadSkippedAlone ==
    (source.kind = "db" /\ polled.path \in {"drained", "error"}) =>
        \A i \in 1..Len(polled.pending) :
            (WellFormed(polled.pending[i])
                /\ IntToIp(polled.pending[i].ipv4_address) \notin polled.processed)
            => \E j \in 1..Len(polled.batch) :
                  polled.batch[j].ip_address = IntToIp(polled.pending[i].ipv4_address)

\* C16: a batch returned by get_new_leases, of the file source or of the database
\* source, holds at most one lease per address.
OneLeasePerIp ==
    \A i, j \in 1..Len(polled.batch) :
        polled.batch[i].ip_address = polled.batch[j].ip_address => i = j

\* C17: in continuous mode nothing that happens during an iteration of the monitor loop
\* (a malformed row or payload, a hostname outside the convention, a conflict, a failed
\* reservation or DNS call, a failed write, a lease file or channel that cannot be read)
\* stops main(): once the loop has made a get_new_leases call it goes on to the next.
LoopSurvivesErrors ==
    (~driver.args.once /\ driver.polls > 0) => driver.pc # "stopped"

----------------------------------------------------------------------------
(* Properties of the conflict detection *)

\* The distinct hostnames of the targets that claim rack unit ru.
ClaimantsOf(bmc_targets, ru) ==
    {bmc_targets[i].hostname : i \in {j \in 1..Len(bmc_targets) :
        /\ Truthy(bmc_targets[j].hostname)
        /\ ru \in RackUnitRangeOf[bmc_targets[j].hostname]}}

\* C19: for every cabinet a reconcile pass handles and every rack unit, a rack-unit
\* conflict is reported for the unit exactly when more than one distinct hostname of
\* the cabinet's targets claims it.
RackUnitConflictIffTwoHostnames ==
    \A r \in Elems(last.reports) :
        \A ru \in UNION {RackUnitRangeOf[h] : h \in Hostnames} :
            (\E c \in r.conflicts.rack_unit : c.ru = ru)
                <=> Cardinality(ClaimantsOf(r.inventory.bmc_targets, ru)) > 1

\* The conflicts of a validation as a set: which macs, hostnames and rack units, and
\* the ips or devices each cites.
ConflictSet(w) ==
    [mac |-> Elems(w.mac), hostname |-> Elems(w.hostname), rack_unit |-> w.rack_unit]

\* The targets in the order f.
Reordered(bmc_targets, f) ==
    [i \in 1..Len(bmc_targets) |-> bmc_targets[f[i]]]

\* C20: the conflicts a reconcile pass reports for a cabinet (found on the targets in
\* the order the merge of file and leases produced them) are the conflicts found on
\* the targets of the final inventory taken in any order.
ConflictsOrderIndependent ==
    \A r \in Elems(last.reports) :
        \A f \in Permutations(1..Len(r.inventory.bmc_targets)) :
            ConflictSet(ValidateBmcConflicts(Reordered(r.inventory.bmc_targets, f)))
                = ConflictSet(r.conflicts)

\* A pass reported a hostname conflict and a rack-unit conflict on a cabinet whose
\* targets were sorted into another order than the one they were validated in.
ConflictsOnReorderedTargets ==
    \E r \in Elems(last.reports) :
        /\ r.conflicts.hostname # <<>>
        /\ r.conflicts.rack_unit # {}
        /\ Len(r.inventory.bmc_targets) >= 2
        /\ ~r.is_new_cabinet
        /\ r.inventory.bmc_targets[1].ip # r.before.bmc_targets[1].ip

----------------------------------------------------------------------------
(* Properties of the processed sets *)

\* The addresses of the leases of a batch.
BatchIps(batch) ==
    {batch[i].ip_address : i \in 1..Len(batch)}

\* C21: the set of processed addresses of the file source only grows, and a
\* get_new_leases call of the file source returns no lease whose address was in the set
\* when the call was made; so an address that was marked processed is never returned
\* again.
ProcessedNeverReturned ==
    [][(source.kind = "file" /\ source'.kind = "file") =>
          /\ source.processed_leases \subseteq source'.processed_leases
          /\ polled'.calls = polled.calls + 1 =>
                 BatchIps(polled'.batch) \cap source.processed_leases = {}]_vars

\* A call read a file that holds a row of an address marked processed before.
ProcessedRowReadAgain ==
    /\ source.kind = "file"
    /\ polled.path = "read"
    /\ polled.mtime = lease_file.mtime
    /\ \E i \in 1..Len(lease_file.rows) :
          /\ ParseLeaseLine(lease_file.rows[i], source.subnet_filter) # <<>>
          /\ ParseLeaseLine(lease_file.rows[i], source.subnet_filter)[1].ip_address
                \in polled.processed

\* C22: a get_new_leases call of the database source returns no address twice and no
\* address an earlier call of the same source had returned: what it returns was not in
\* processed_lease_ids before the call and is in it afterwards, and the set only grows.
NotifiedIpReturnedOnce ==
    [][(source.kind = "db" /\ source'.kind = "db") =>
          /\ source.processed_lease_ids \subseteq source'.processed_lease_ids
          /\ polled'.calls = polled.calls + 1 =>
                 /\ BatchIps(polled'.batch) \cap source.processed_lease_ids = {}
                 /\ BatchIps(polled'.batch) \subseteq source'.processed_lease_ids
                 /\ Cardinality(BatchIps(polled'.batch)) = Len(polled'.batch)]_vars

\* A call went through a well-formed notification for an address that an earlier call
\* had returned.
DuplicateNotificationDrained ==
    /\ source.kind = "db"
    /\ polled.calls >= 2
    /\ polled.path = "drained"
    /\ \E i \in 1..Len(polled.pending) :
          /\ WellFormed(polled.pending[i])
          /\ IntToIp(polled.pending[i].ipv4_address) \in polled.processed

----------------------------------------------------------------------------
(* Properties of the parsing of the lease file *)

\* The file is as the last get_new_leases call, which read it, met it.
ReadAsItIs ==
    /\ source.kind = "file"
    /\ polled.path = "read"
    /\ polled.mtime = lease_file.mtime

\* C23: a get_new_leases call that read the lease file returned the lease of every row
\* that has 9 fields or more and a parsable expiry, passes the subnet filter and whose
\* address was not processed, whatever malformed rows the file holds besides.
MalformedRowDroppedAlone ==
    ReadAsItIs =>
        \A i \in 1..Len(lease_file.rows) :
            (/\ ~Malformed(lease_file.rows[i])
             /\ source.subnet_filter = {} \/ lease_file.rows[i][6] \in source.subnet_filter
             /\ lease_file.rows[i][1] \notin polled.processed)
            => \E j \in 1..Len(polled.batch) :
                  polled.batch[j] = Lease(lease_file.rows[i][1], lease_file.rows[i][2],
                                          lease_file.rows[i][9])

\* A call read a file that holds a malformed row before a well-formed one, and returned
\* the lease of the latter.
MalformedRowBesideLease ==
    /\ ReadAsItIs
    /\ polled.batch # <<>>
    /\ \E i, k \in 1..Len(lease_file.rows) :
          /\ i < k
          /\ Malformed(lease_file.rows[i])
          /\ ~Malformed(lease_file.rows[k])

----------------------------------------------------------------------------
(* Properties of the order of the transaction's steps *)

\* Step is among the first n collaborator calls of the trace.
Within(trace, n, step) ==
    \E j \in 1..n : trace[j] = step

\* C24: in every create_static_reservation call, conn.commit() is called only after
\* the upsert was executed without error and, with DNS enabled, after create_dns_record
\* was called and reported success; and the call returns True only when it committed.
CommitOnlyAfterBothSteps ==
    \A c \in Elems(last.calls) :
        /\ \A i \in 1..Len(c.trace) :
               c.trace[i] \in {"commit", "commit_raises"} =>
                  /\ Within(c.trace, i - 1, "execute")
                  /\ enable_dns => Within(c.trace, i - 1, "dns")
                  /\ c.outcome \notin {"upsert_fail", "dns_fail"}
        /\ c.ret => Within(c.trace, Len(c.trace), "commit")

\* A call with DNS enabled went through the DNS step, committed and changed the store.
CommittedAfterDns ==
    \E c \in Elems(last.calls) :
        /\ ReachedDns(c)
        /\ c.ret
        /\ c.hosts_changed
        /\ Within(c.trace, Len(c.trace), "commit")

----------------------------------------------------------------------------
(* Properties of the promotion of new leases *)

\* The leases of the calls made on behalf of cabinet key, in call order.
LeasesCalledFor(calls, key) ==
    LET cs == SelectSeq(calls, LAMBDA c : CabinetKeyOf[c.lease.hostname] = key)
    IN  [i \in 1..Len(cs) |-> cs[i].lease]

\* The leases create_static_reservation was called for during the last operation on
\* behalf of cabinet key.
AttemptedFor(key) ==
    LeasesCalledFor(last.calls, key)

\* Lease number i of the batch is of cabinet key and brings an address that neither
\* the cabinet's file nor an earlier lease of the batch for the cabinet has.
BringsNewIp(batch, i, key, before) ==
    /\ CabinetKeyOf[batch[i].hostname] = key
    /\ \A k \in 1..Len(before.bmc_targets) : before.bmc_targets[k].ip # batch[i].ip_address
    /\ \A j \in 1..(i - 1) :
          ~(CabinetKeyOf[batch[j].hostname] = key
                /\ batch[j].ip_address = batch[i].ip_address)

\* The leases of the batch that become new targets of cabinet key, in batch order.
NewTargetLeases(batch, key, before) ==
    LET idx == SelectSeq([i \in 1..Len(batch) |-> i],
                         LAMBDA i : BringsNewIp(batch, i, key, before))
    IN  [j \in 1..Len(idx) |-> batch[idx[j]]]

\* C25: in a reconcile pass, the create_static_reservation calls made for a cabinet are
\* one call for each lease of the batch that becomes a new target of the cabinet (its
\* address is not in the cabinet's file), in batch order; no call is made for a lease
\* whose address the file already has, nor for a lease of no cabinet.
ReservationPerNewTarget ==
    last.op = "reconcile" =>
        /\ \A r \in Elems(last.reports) :
               AttemptedFor(r.key) = NewTargetLeases(last.batch, r.key, r.before)
        /\ \A c \in Elems(last.calls) :
               \E r \in Elems(last.reports) : r.key = CabinetKeyOf[c.lease.hostname]

\* A pass on a cabinet whose file had the address of one lease of the batch and not the
\* address of another, for which the call was made.
KnownAndNewInOnePass ==
    /\ last.op = "reconcile"
    /\ \E r \in Elems(last.reports) :
          /\ AttemptedFor(r.key) # <<>>
          /\ \E i \in 1..Len(last.batch), k \in 1..Len(r.before.bmc_targets) :
                /\ CabinetKeyOf[last.batch[i].hostname] = r.key
                /\ r.before.bmc_targets[k].ip = last.batch[i].ip_address

\* The call met a failure of the store or of the DNS.
MetFailure(c) ==
    c.outcome # "ok" /\ ~c.ret

\* The cabinet's file holds a target for every lease.
AllMerged(leases, file) ==
    \A i \in 1..Len(leases) :
        \E k \in 1..Len(file.bmc_targets) : file.bmc_targets[k].ip = leases[i].ip_address

\* C26: when a create_static_reservation call of a reconcile pass of the monitor loop
\* fails, the pass still handles every cabinet of the batch: it merges every new lease
\* into the cabinet's file, makes the call for each of them, the calls that meet no
\* failure succeed, the files are written; and in continuous mode the loop goes on.
FailedPromotionIsLocal ==
    [][(driver.pc = "batch" /\ \E c \in Elems(last'.calls) : MetFailure(c)) =>
          /\ last'.ret = "file"
          /\ \A n \in 1..Len(GroupKeys(polled.batch)) :
                \E r \in Elems(last'.reports) :
                    /\ r.key = GroupKeys(polled.batch)[n]
                    /\ r.written
                    /\ LeasesCalledFor(last'.calls, r.key)
                          = NewTargetLeases(polled.batch, r.key, r.before)
                    /\ AllMerged(NewTargetLeases(polled.batch, r.key, r.before), files'[r.key])
          /\ \A c \in Elems(last'.calls) :
                (c.outcome = "ok" /\ c.lease.mac_address # None) => c.ret
          /\ ~driver.args.once => driver'.pc = "loop"]_vars

\* A pass of the monitor loop in which the call for one new lease failed and the call
\* for a later one succeeded; the loop goes on.
FailureThenPromotion ==
    /\ driver.pc = "loop"
    /\ last.op = "reconcile"
    /\ \E i, j \in 1..Len(last.calls) :
          /\ i < j
          /\ MetFailure(last.calls[i])
          /\ last.calls[j].ret

----------------------------------------------------------------------------
(* Properties of the new-devices summary *)

\* How many times x occurs in s.
Count(s, x) ==
    Cardinality({i \in 1..Len(s) : s[i] = x})

\* The sequences hold the same elements the same number of times.
SameElements(s, u) ==
    Len(s) = Len(u) /\ \A i \in 1..Len(s) : Count(s, s[i]) = Count(u, s[i])

\* The hostnames of the leases.
HostnamesOf(leases) ==
    [i \in 1..Len(leases) |-> leases[i].hostname]

\* C27: a reconcile pass handles a cabinet once, and for a cabinet whose file it wrote
\* it logs one new-devices summary, naming the hostname of every lease newly added to
\* the cabinet, when there is such a lease, and no summary when there is none.
OneSummaryPerCabinet ==
    last.op = "reconcile" =>
        /\ \A i, j \in 1..Len(last.reports) :
               last.reports[i].key = last.reports[j].key => i = j
        /\ \A r \in Elems(last.reports) :
               r.written =>
                  IF NewTargetLeases(last.batch, r.key, r.before) # <<>>
                  THEN /\ Len(r.summary) = 1
                       /\ r.summary[1].key = r.key
                       /\ SameElements(r.summary[1].devices,
                              HostnamesOf(NewTargetLeases(last.batch, r.key, r.before)))
                  ELSE r.summary = <<>>

\* A pass added two leases to one cabinet and logged its summary.
TwoLeasesOneSummary ==
    /\ last.op = "reconcile"
    /\ \E r \in Elems(last.reports) :
          /\ r.written
          /\ Len(NewTargetLeases(last.batch, r.key, r.before)) >= 2
          /\ r.summary # <<>>

----------------------------------------------------------------------------
(* Properties of the bulk sync *)

\* The positions in the batch of the leases that satisfy Test.
Positions(batch, Test(_)) ==
    SelectSeq([i \in 1..Len(batch) |-> i], LAMBDA i : Test(batch[i]))

\* The lease has a hostname that matches the site-cabinet convention.
Conventional(lease) ==
    lease.hostname # <<>> /\ ExtractSiteAndCabinet(lease.hostname) # NoKey

\* The lease has no hostname.
Nameless(lease) ==
    lease.hostname = <<>>

\* The lease has a hostname outside the convention.
OffConvention(lease) ==
    lease.hostname # <<>> /\ ExtractSiteAndCabinet(lease.hostname) = NoKey

\* C28: sync_existing_leases with the database configured (main() calls it in no other
\* configuration) calls create_static_reservation once for each lease whose hostname
\* matches the convention, in the order of the leases, and for no other lease; it
\* counts the leases without hostname and those outside the convention apart, and
\* returns the number of calls that returned True.
SyncCallsAndCounts ==
    (last.op = "sync_existing" /\ db_enabled) =>
        /\ Len(last.calls) = Len(Positions(last.batch, Conventional))
        /\ \A i \in 1..Len(last.calls) :
               last.calls[i].lease = last.batch[Positions(last.batch, Conventional)[i]]
        /\ last.skipped_no_hostname = Len(Positions(last.batch, Nameless))
        /\ last.skipped_no_match = Len(Positions(last.batch, OffConvention))
        /\ last.count = Cardinality({i \in 1..Len(last.calls) : last.calls[i].ret})

\* A sync of a lease it promoted and a lease it skipped.
SyncedOneSkippedOne ==
    /\ last.op = "sync_existing"
    /\ db_enabled
    /\ last.count > 0
    /\ last.skipped_no_hostname + last.skipped_no_match > 0

----------------------------------------------------------------------------
(* Properties of leases without hardware address *)

\* The lease has no hardware address: mac_address is None (a notification without
\* dhcp_identifier) or '' (a row of the lease file with an empty hwaddr column).
Macless(lease) ==
    lease.mac_address = None \/ lease.mac_address = <<>>

\* C29: a create_static_reservation call for a lease without hardware address returns
\* False and leaves the reservation store as it was.
MaclessNeverPromoted ==
    \A c \in Elems(last.calls) :
        Macless(c.lease) => (~c.ret /\ ~c.hosts_changed)

----------------------------------------------------------------------------
(* Properties of the one-shot mode *)

\* The addresses the source holds as processed.
ProcessedOf(src) ==
    IF src.kind = "file" THEN src.processed_leases ELSE src.processed_lease_ids

\* The step ends the loop through the test of --once, line 1522.
BreaksOnOnce ==
    driver.pc # "stopped" /\ driver'.pc = "stopped" /\ driver'.cause = "once"

\* The step completes an iteration: get_new_leases returned no lease, or the batch it
\* had returned was handed to generate_batch_inventory and, unless that raised, every
\* lease of it was marked processed.
CompletesPass ==
    \/ /\ driver.pc = "loop"
       /\ polled'.calls = polled.calls + 1
       /\ polled'.batch = <<>>
    \/ /\ driver.pc = "batch"
       /\ last'.op = "reconcile"
       /\ last'.batch = polled.batch
       /\ last'.ret # "raised" => BatchIps(polled.batch) \subseteq ProcessedOf(source')

\* How far main() has come: a measure of its position.
Rank(pc) ==
    CASE pc = "start" -> 0
      [] pc = "sync" -> 1
      [] pc = "loop" -> 2
      [] pc = "batch" -> 3
      [] pc = "stopped" -> 4

\* C30: with --once the monitor loop makes one get_new_leases call and no second one,
\* leaves the loop through the test of --once only by a step that completes the
\* iteration, and main() comes to an end: every step it takes brings it further, so it
\* takes four steps at most.
OneShotRunsOnePass ==
    /\ [](driver.args.once =>
             /\ driver.polls <= 1
             /\ driver.polls = 1 => driver.pc \in {"batch", "stopped"})
    /\ [][(driver.args.once /\ BreaksOnOnce) => CompletesPass]_vars
    /\ [][(driver.args.once /\ driver' # driver) => Rank(driver'.pc) > Rank(driver.pc)]_vars

\* A one-shot run ended after it had reconciled a batch and marked it processed.
OneShotReconciled ==
    /\ driver.args.once
    /\ driver.pc = "stopped"
    /\ driver.cause = "once"
    /\ last.op = "reconcile"
    /\ last.ret = "file"
    /\ polled.batch # <<>>
    /\ BatchIps(polled.batch) \subseteq ProcessedOf(source)

----------------------------------------------------------------------------
(* Properties of the persisted inventory *)

\* The entry of existing_bmc_map for the address has this mac and this hostname.
LoadsAs(map, ip, mac, hostname) ==
    \E i \in 1..Len(map) :
        map[i].ip = ip /\ map[i].mac = mac /\ map[i].hostname = hostname

\* C31: an inventory a reconcile pass has written, loaded as the next pass loads it,
\* gives for every address the mac and the hostname that were written.
WrittenLoadsBack ==
    \A r \in Elems(last.reports) :
        r.written =>
            \A t \in TargetsIn(r.inventory) :
                LoadsAs(LoadExisting(files[r.key]), t.ip, t.mac, t.hostname)

\* The addresses of the targets of a file.
FileIps(file) ==
    {file.bmc_targets[i].ip : i \in 1..Len(file.bmc_targets)}

\* C32: no step takes an address out of an inventory file: the addresses a cabinet's
\* file holds before a reconcile pass are in the file after it.
IpsNeverShrink ==
    [][\A k \in CabinetKeys : FileIps(files[k]) \subseteq FileIps(files'[k])]_vars

\* C33: in every inventory file each address is the ip of one target at most.
OneTargetPerIp ==
    \A k \in CabinetKeys :
        \A i, j \in 1..Len(files[k].bmc_targets) :
            files[k].bmc_targets[i].ip = files[k].bmc_targets[j].ip => i = j

\* A pass wrote the file of a cabinet for which its batch held two leases of one address.
SameIpTwiceInBatch ==
    /\ last.op = "reconcile"
    /\ \E r \in Elems(last.reports) :
          /\ r.written
          /\ \E i, j \in 1..Len(last.batch) :
                /\ i < j
                /\ last.batch[i].ip_address = last.batch[j].ip_address
                /\ CabinetKeyOf[last.batch[i].hostname] = r.key
                /\ CabinetKeyOf[last.batch[j].hostname] = r.key

\* C34: every target with a hostname is in the file of the cabinet its hostname names.
FiledUnderOwnCabinet ==
    \A k \in CabinetKeys :
        \A t \in TargetsIn(files[k]) :
            t.hostname # <<>> => ExtractSiteAndCabinet(t.hostname) = k

----------------------------------------------------------------------------
(* Properties of what is marked processed *)

\* The step hands the batch to generate_batch_inventory, which returns without raising.
ReconcilesBatch ==
    /\ driver.pc = "batch"
    /\ last'.op = "reconcile"
    /\ last'.batch = polled.batch
    /\ last'.ret # "raised"

\* C35: an address enters the processed set of the file source only by a step that
\* reconciles a batch holding a lease of that address, without exception.
ProcessedWasReconciled ==
    [][(source.kind = "file" /\ source'.kind = "file") =>
          \A ip \in source'.processed_leases \ source.processed_leases :
              ReconcilesBatch /\ ip \in BatchIps(polled.batch)]_vars

\* The reconcile of the batch the last get_new_leases call returned has raised, and
\* main() is at the head of the loop.
BatchRaised ==
    /\ source.kind = "file"
    /\ driver.pc = "loop"
    /\ last.op = "reconcile"
    /\ last.ret = "raised"
    /\ last.batch = polled.batch

\* C36: when generate_batch_inventory raises, the leases of the batch are not marked
\* processed, and the next get_new_leases call of the file source, the lease file
\* being readable, returns them again.
RaisedBatchReturnedAgain ==
    [][/\ (driver.pc = "batch" /\ last'.op = "reconcile" /\ last'.ret = "raised")
            => source' = source
       /\ (BatchRaised /\ polled'.calls = polled.calls + 1 /\ lease_file.state = "ok")
            => BatchIps(last.batch) \subseteq BatchIps(polled'.batch)]_vars

\* C37: an address enters processed_lease_ids of the database source only in a
\* get_new_leases call that returns a lease of that address, however the call ends.
SuppressedWasReturned ==
    [][(source.kind = "db" /\ source'.kind = "db") =>
          source'.processed_lease_ids \ source.processed_lease_ids
              \subseteq BatchIps(polled'.batch)]_vars

----------------------------------------------------------------------------
(* The inventory watcher (bmc_dns_watcher.py) *)

\* The process_inventory_file calls of one run.
MaxFiles == 2

\* The entries of metadata.leases in one inventory file.
MaxLeases == 2

\* str.strip() of the blanks that occur
RECURSIVE Strip(_)
Strip(s) ==
    IF s = <<>> THEN s
    ELSE IF s[1] = " " THEN Strip(Tail(s))
    ELSE IF s[Len(s)] = " " THEN Strip(SubSeq(s, 1, Len(s) - 1))
    ELSE s

\* s.split('.')
RECURSIVE SplitDots(_, _)
SplitDots(s, cur) ==
    IF s = <<>> THEN <<cur>>
    ELSE IF s[1] = "." THEN <<cur>> \o SplitDots(Tail(s), <<>>)
    ELSE SplitDots(Tail(s), Append(cur, s[1]))

\* int(part) raises ValueError unless part is a run of digits, with a sign or without.
ParsesAsInt(part) ==
    LET digits == IF part # <<>> /\ part[1] = "-" THEN Tail(part) ELSE part
    IN  digits # <<>> /\ \A i \in 1..Len(digits) : IsDigit(digits[i])

\* int(part)
IntOf(part) ==
    IF part[1] = "-" THEN 0 - ParseInt(Tail(part)) ELSE ParseInt(part)

\* validate_ip_address: four parts, each an int of 0..255.
ValidateIpAddress(ip_address) ==
    LET parts == SplitDots(ip_address, <<>>)
    IN  /\ ip_address # <<>>
        /\ Len(parts) = 4
        /\ \A i \in 1..4 : ParsesAsInt(parts[i]) /\ IntOf(parts[i]) >= 0 /\ IntOf(parts[i]) <= 255

\* \w as far as Alphabet goes
IsWord(c) ==
    \/ IsDigit(c)
    \/ \E i \in 1..Len(LowerCase) : LowerCase[i] = c \/ UpperCase[i] = c

\* HOSTNAME_PATTERN.match(s) for a lower-case s: the four groups, or found = FALSE.
\* ^(us[1-4]|dv)-cab(\d+)-ru(\d{2}(?:-\d{2})?)-(\w+)$
HostnamePatternMatch(s) ==
    LET NoMatch == [found |-> FALSE]
        site == IF StartsWithAt(s, 1, <<"d", "v">>) THEN 2
                ELSE IF /\ StartsWithAt(s, 1, <<"u", "s">>)
                        /\ Len(s) >= 3
                        /\ s[3] \in {"1", "2", "3", "4"} THEN 3
                ELSE 0
        c1   == site + 5
        c2   == DigitRunEnd(s, c1)
        r1   == c2 + 3
        TwoDigits(i) == i + 1 <= Len(s) /\ IsDigit(s[i]) /\ IsDigit(s[i + 1])
        WordToEnd(i) == i <= Len(s) /\ \A j \in i..Len(s) : IsWord(s[j])
    IN  IF site = 0 \/ ~StartsWithAt(s, site + 1, <<"-", "c", "a", "b">>) \/ c2 = c1
        THEN NoMatch
        ELSE IF ~StartsWithAt(s, c2, <<"-", "r", "u">>) \/ ~TwoDigits(r1)
        THEN NoMatch
        ELSE IF /\ StartsWithAt(s, r1 + 2, <<"-">>)
                /\ TwoDigits(r1 + 3)
                /\ StartsWithAt(s, r1 + 5, <<"-">>)
                /\ WordToEnd(r1 + 6)
        THEN [found |-> TRUE, site |-> SubSeq(s, 1, site), cabinet |-> SubSeq(s, c1, c2 - 1),
              rack_unit |-> SubSeq(s, r1, r1 + 4), bmc_type |-> SubSeq(s, r1 + 6, Len(s))]
        ELSE IF StartsWithAt(s, r1 + 2, <<"-">>) /\ WordToEnd(r1 + 3)
        THEN [found |-> TRUE, site |-> SubSeq(s, 1, site), cabinet |-> SubSeq(s, c1, c2 - 1),
              rack_unit |-> SubSeq(s, r1, r1 + 1), bmc_type |-> SubSeq(s, r1 + 3, Len(s))]
        ELSE NoMatch

VALID_SITES ==
    {<<"u", "s", "1">>, <<"u", "s", "2">>, <<"u", "s", "3">>, <<"u", "s", "4">>, <<"d", "v">>}

VALID_BMC_TYPES ==
    {<<"i", "d", "r", "a", "c">>, <<"i", "l", "o">>, <<"b", "m", "c">>}

\* validate_hostname: "ok", or the validation_stats counter the refusal adds to
\* ("empty" adds to none).
ValidateHostname(hostname) ==
    LET m == HostnamePatternMatch(Lower(hostname))
    IN  IF hostname = <<>> THEN "empty"
        ELSE IF ~m.found THEN "invalid_format"
        ELSE IF m.site \notin VALID_SITES THEN "invalid_site"
        ELSE IF Len(m.rack_unit) = 5
        THEN LET start_ru == ParseInt(SubSeq(m.rack_unit, 1, 2))
                 end_ru   == ParseInt(SubSeq(m.rack_unit, 4, 5))
             IN  IF start_ru >= end_ru \/ start_ru < 1 \/ end_ru > 48 THEN "invalid_format"
                 ELSE IF m.bmc_type \notin VALID_BMC_TYPES THEN "invalid_bmc_type"
                 ELSE "ok"
        ELSE IF ParseInt(m.rack_unit) < 1 \/ ParseInt(m.rack_unit) > 48 THEN "invalid_format"
        ELSE IF m.bmc_type \notin VALID_BMC_TYPES THEN "invalid_bmc_type"
        ELSE "ok"

W_ILO   == <<"u", "s", "3", "-", "c", "a", "b", "1", "-", "r", "u", "0", "3", "-", "i", "l", "o">>
W_RANGE == <<"D", "V", "-", "C", "A", "B", "2", "-", "R", "U", "1", "7", "-", "1", "8", "-", "B", "M", "C">>
W_RU49  == <<"u", "s", "3", "-", "c", "a", "b", "1", "-", "r", "u", "4", "9", "-", "i", "l", "o">>
W_TYPE  == <<"u", "s", "3", "-", "c", "a", "b", "1", "-", "r", "u", "0", "5", "-", "x">>
IP_3PARTS == <<"1", "0", ".", "0", ".", "0">>
IP_256    == <<"1", "0", ".", "0", ".", "0", ".", "2", "5", "6">>

\* A key that a lease entry of the YAML document does not have.
Absent ==
    <<"absent">>

\* One entry of metadata.leases.
Entry(hostname, ip) ==
    [hostname |-> hostname, ip |-> ip]

\* The entries the inventory files are made of: two devices, the first one again under
\* another ip, in upper case and behind a blank, the ip of the first under the second
\* name, names and addresses that validation refuses, and entries extraction drops.
Entries ==
    {Entry(W_ILO, IP1), Entry(W_ILO, IP2), Entry(Upper(W_ILO), IP2), Entry(<<" ">> \o W_ILO, IP3),
     Entry(W_RANGE, IP1), Entry(W_RANGE, IP3),
     Entry(H_RU3, IP4), Entry(W_RU49, IP4), Entry(W_TYPE, IP5),
     Entry(W_RANGE, IP_3PARTS), Entry(W_ILO, IP_256),
     Entry(Absent, IP6), Entry(<<" ">>, IP6)}

WatcherHostnames ==
    {Strip(e.hostname) : e \in Entries}

WatcherIps ==
    {Strip(e.ip) : e \in Entries}

\* The two validations, tabulated once over the names and addresses that occur.
ValidHostnameOf ==
    [h \in WatcherHostnames |-> ValidateHostname(h)]

ValidIpOf ==
    [i \in WatcherIps |-> ValidateIpAddress(i)]

\* An inventory file as extract_hostnames_from_inventory meets it: absent, not a
\* YAML mapping with metadata.leases, or a document with its lease entries.
RECURSIVE LeaseLists(_)
LeaseLists(n) ==
    IF n = 0 THEN {<<>>}
    ELSE LET shorter == LeaseLists(n - 1)
         IN  shorter \cup {Append(l, e) : l \in {x \in shorter : Len(x) = n - 1}, e \in Entries}

InventoryFiles ==
    {[state |-> "missing", leases |-> <<>>], [state |-> "invalid", leases |-> <<>>]}
        \cup {[state |-> "ok", leases |-> l] : l \in LeaseLists(MaxLeases)}

\* extract_hostnames_from_inventory: the (hostname, ip) pairs of the entries that have
\* both keys and are not blank, stripped; [] for a file that cannot be read.
RECURSIVE ExtractLeases(_)
ExtractLeases(leases) ==
    IF leases = <<>> THEN <<>>
    ELSE LET lease == leases[1]
             rest  == ExtractLeases(Tail(leases))
         IN  IF lease.hostname = Absent \/ lease.ip = Absent THEN rest
             ELSE IF Strip(lease.hostname) = <<>> \/ Strip(lease.ip) = <<>> THEN rest
             ELSE <<Entry(Strip(lease.hostname), Strip(lease.ip))>> \o rest

ExtractHostnamesFromInventory(file) ==
    IF file.state = "ok" THEN ExtractLeases(file.leases) ELSE <<>>

StatNames ==
    {"total_processed", "valid", "invalid_format", "invalid_site", "invalid_bmc_type",
     "duplicate_hostname", "duplicate_ip", "ip_conflict"}

\* InventoryWatcher.__init__
NewWatcher(strict_validation, dns_enabled) ==
    [pc                 |-> "on",
     strict_validation  |-> strict_validation,
     dns_enabled        |-> dns_enabled,
     reported_hostnames |-> {},
     hostname_to_ip     |-> <<>>,
     ip_to_hostname     |-> <<>>,
     validation_stats   |-> [k \in StatNames |-> 0],
     dns_stats          |-> [created |-> 0, skipped |-> 0, failed |-> 0],
     announced          |-> <<>>,
     calls              |-> 0]

\* validation_stats[k] += 1
Bump(w, k) ==
    [w EXCEPT !.validation_stats[k] = @ + 1]

\* check_uniqueness: "unique", or the validation_stats counter the refusal adds to.
CheckUniquenessLax(w, hostname, ip_address) ==
    "unique"

CheckUniqueness(w, hostname, ip_address) ==
    IF hostname \in DOMAIN w.hostname_to_ip
    THEN IF w.hostname_to_ip[hostname] # ip_address THEN "ip_conflict" ELSE "duplicate_hostname"
    ELSE IF ip_address \in DOMAIN w.ip_to_hostname
    THEN IF w.ip_to_hostname[ip_address] # hostname THEN "ip_conflict" ELSE "duplicate_ip"
    ELSE "unique"

\* What create_dns_record can answer: created, (True, "... already exists"), or failed.
DnsAnswers ==
    {"created", "exists", "failed"}

\* The bookkeeping of dns_stats after a create_dns_record call.
CountDns(stats, answer) ==
    IF answer = "created" THEN [stats EXCEPT !.created = @ + 1]
    ELSE IF answer = "exists" THEN [stats EXCEPT !.skipped = @ + 1]
    ELSE [stats EXCEPT !.failed = @ + 1]

\* One turn of the loop of process_inventory_file.
ProcessEntry(w, hostname, ip_address, answer) ==
    LET w1     == Bump(w, "total_processed")
        valid  == ValidHostnameOf[hostname]
        unique == CheckUniqueness(w1, hostname, ip_address)
    IN  IF hostname \in w.reported_hostnames THEN w1
        ELSE IF ~ValidIpOf[ip_address] THEN w1
        ELSE IF w.strict_validation /\ valid # "ok"
        THEN IF valid = "empty" THEN w1 ELSE Bump(w1, valid)
        ELSE IF unique # "unique" THEN Bump(w1, unique)
        ELSE [Bump(w1, "valid") EXCEPT
                 !.hostname_to_ip     = (hostname :> ip_address) @@ @,
                 !.ip_to_hostname     = (ip_address :> hostname) @@ @,
                 !.reported_hostnames = @ \cup {hostname},
                 !.dns_stats          = IF w.dns_enabled THEN CountDns(@, answer) ELSE @,
                 !.announced          = Append(@, hostname)]

\* The loop of process_inventory_file over the extracted pairs.
RECURSIVE ProcessEntries(_, _, _)
ProcessEntries(w, hostnames, answers) ==
    IF hostnames = <<>> THEN w
    ELSE ProcessEntries(ProcessEntry(w, hostnames[1].hostname, hostnames[1].ip, answers[1]),
                        Tail(hostnames), Tail(answers))

\* What the DNS collaborator answers to the calls of one file.
AnswersFor(w, file) ==
    IF w.dns_enabled
    THEN [1..Len(file.leases) -> DnsAnswers]
    ELSE {[i \in 1..Len(file.leases) |-> "created"]}

InitWatcher ==
    /\ AtRest
    /\ Idle
    /\ probe = NoProbe
    /\ watcher \in {NewWatcher(s, d) : s \in BOOLEAN, d \in BOOLEAN}

\* process_inventory_file(file_path)
ProcessInventoryFile ==
    /\ watcher.calls < MaxFiles
    /\ \E file \in InventoryFiles :
          \E answers \in AnswersFor(watcher, file) :
             watcher' = [ProcessEntries(watcher, ExtractHostnamesFromInventory(file), answers)
                            EXCEPT !.calls = @ + 1]
    /\ UNCHANGED <<db_enabled, enable_dns, dns_available, lease_log, files, hosts, dns, passes,
                   last, probe, watch>>

NextWatcher ==
    ProcessInventoryFile

SpecWatcher ==
    InitWatcher /\ [][NextWatcher]_vars

\* How often hostname was announced as a new device.
TimesAnnounced(hostname) ==
    Cardinality({i \in 1..Len(watcher.announced) : watcher.announced[i] = hostname})

\* C38: after any sequence of process_inventory_file calls hostname_to_ip and
\* ip_to_hostname are one-to-one and inverse to each other, reported_hostnames is the
\* set of mapped hostnames, no hostname was announced as new more than once, and the
\* 'valid' counter is the number of reported hostnames.
WatcherMapsConsistent ==
    LET h2i == watcher.hostname_to_ip
        i2h == watcher.ip_to_hostname
    IN  /\ \A h \in DOMAIN h2i : h2i[h] \in DOMAIN i2h /\ i2h[h2i[h]] = h
        /\ \A i \in DOMAIN i2h : i2h[i] \in DOMAIN h2i /\ h2i[i2h[i]] = i
        /\ watcher.reported_hostnames = DOMAIN h2i
        /\ \A h \in WatcherHostnames : TimesAnnounced(h) <= 1
        /\ watcher.validation_stats["valid"] = Cardinality(watcher.reported_hostnames)

\* Two devices are mapped, and an entry that would have moved an ip or a hostname of
\* theirs was refused.
ConflictRefusedBesideTwo ==
    /\ Cardinality(watcher.reported_hostnames) >= 2
    /\ watcher.validation_stats["ip_conflict"] > 0
    /\ watcher.calls >= 2

====
